---------------------------- MODULE Spec2Model ----------------------------
(***************************************************************************)
(* Session orchestration of the accessibility web-browsing agent           *)
(* (src/summarize.py): the turn handler agent_response, the intent         *)
(* resolver _match_user_intent, the site resolver find_website and the     *)
(* summarizer quick_summarize, with the text-generation service and the    *)
(* rendered web page as nondeterministic environment.                      *)
(*                                                                         *)
(* Python strings are sequences of one-character strings, so that          *)
(* lower(), strip(), substring tests and URL parsing are computed.         *)
(* Python None is the one-element sequence None, which no text equals.     *)
(* A dict is a sequence of <<key, value>> pairs with unique keys, in       *)
(* insertion order.                                                        *)
(***************************************************************************)
EXTENDS Integers, Sequences, FiniteSets, TLC

VARIABLES
    link_history,   \* FastWebSummarizer.link_history
    bookmarks,      \* FastWebSummarizer.bookmarks
    current_title,  \* FastWebSummarizer.current_title
    turn            \* the last call of an exposed operation: input, result, state before

vars == <<link_history, bookmarks, current_title, turn>>

---------------------------------------------------------------------------
\* Strings

None == <<"<None>">>

UpperChars ==
    <<"A","B","C","D","E","F","G","H","I","J","K","L","M",
      "N","O","P","Q","R","S","T","U","V","W","X","Y","Z">>

LowerChars ==
    <<"a","b","c","d","e","f","g","h","i","j","k","l","m",
      "n","o","p","q","r","s","t","u","v","w","x","y","z">>

DigitChars == {"0","1","2","3","4","5","6","7","8","9"}

Whitespace == {" ", "\n", "\t", "\r"}

Range(s) == {s[i] : i \in 1..Len(s)}

UpperLetters == Range(UpperChars)

LowerLetters == Range(LowerChars)

IsUpperChar(c) == c \in UpperLetters

IsLowerChar(c) == c \in LowerLetters

ToLower ==
    [c \in UpperLetters |-> LowerChars[CHOOSE i \in 1..Len(UpperChars) : UpperChars[i] = c]]

ToUpper ==
    [c \in LowerLetters |-> UpperChars[CHOOSE i \in 1..Len(LowerChars) : LowerChars[i] = c]]

\* str.lower(), one character
LowerChar(c) == IF IsUpperChar(c) THEN ToLower[c] ELSE c

\* str.upper(), one character
UpperChar(c) == IF IsLowerChar(c) THEN ToUpper[c] ELSE c

\* str.lower()
Lower(s) == [i \in 1..Len(s) |-> LowerChar(s[i])]

\* str.upper()
Upper(s) == [i \in 1..Len(s) |-> UpperChar(s[i])]

\* sub in s
Contains(sub, s) ==
    \/ sub = <<>>
    \/ \E i \in 1..(Len(s) - Len(sub) + 1) :
            s[i] = sub[1] /\ SubSeq(s, i, i + Len(sub) - 1) = sub

\* s.endswith(suffix)
EndsWith(s, suffix) ==
    /\ Len(suffix) <= Len(s)
    /\ SubSeq(s, Len(s) - Len(suffix) + 1, Len(s)) = suffix

\* s.strip(chars): the characters of cs removed from both ends
StripChars(s, cs) ==
    LET keep == {i \in 1..Len(s) : s[i] \notin cs}
    IN  IF keep = {} THEN <<>>
        ELSE SubSeq(s, CHOOSE i \in keep : \A k \in keep : i <= k,
                       CHOOSE i \in keep : \A k \in keep : i >= k)

\* s.strip()
Strip(s) == StripChars(s, Whitespace)

\* sep.join(items)
RECURSIVE Join(_, _)
Join(sep, items) ==
    IF items = <<>> THEN <<>>
    ELSE IF Len(items) = 1 THEN items[1]
    ELSE items[1] \o sep \o Join(sep, Tail(items))

---------------------------------------------------------------------------
\* Dicts

DictKeys(d) == [i \in 1..Len(d) |-> d[i][1]]

HasKey(d, k) == \E i \in 1..Len(d) : d[i][1] = k

DictGet(d, k) == d[CHOOSE i \in 1..Len(d) : d[i][1] = k][2]

\* d[k] = v
DictPut(d, k, v) ==
    IF HasKey(d, k)
    THEN [i \in 1..Len(d) |-> IF d[i][1] = k THEN <<k, v>> ELSE d[i]]
    ELSE Append(d, <<k, v>>)

---------------------------------------------------------------------------
\* Literals of src/summarize.py

KW_QUIT ==
    <<"q","u","i","t">>
KW_EXIT ==
    <<"e","x","i","t">>
KW_BYE ==
    <<"b","y","e">>
KW_GOODBYE ==
    <<"g","o","o","d","b","y","e">>
KW_STOP ==
    <<"s","t","o","p">>
KW_END ==
    <<"e","n","d">>
KW_BACK ==
    <<"b","a","c","k">>
KW_PREVIOUS ==
    <<"p","r","e","v","i","o","u","s">>
EXIT ==
    <<"E","X","I","T">>
BACK ==
    <<"B","A","C","K">>
INFO_REQUEST ==
    <<"I","N","F","O","_","R","E","Q","U","E","S","T">>
NAVIGATION ==
    <<"N","A","V","I","G","A","T","I","O","N">>
BOOKMARK ==
    <<"B","O","O","K","M","A","R","K">>
LIST_BOOKMARKS ==
    <<"L","I","S","T","_","B","O","O","K","M","A","R","K","S">>
GO_TO_BOOKMARK ==
    <<"G","O","_","T","O","_","B","O","O","K","M","A","R","K">>
SWITCH_WEBSITE ==
    <<"S","W","I","T","C","H","_","W","E","B","S","I","T","E">>
SCHEME_HTTP ==
    <<"h","t","t","p">>
SCHEME_HTTPS ==
    <<"h","t","t","p","s">>
SCHEME_WWW ==
    <<"w","w","w">>
SUMMARY_KEY ==
    <<"s","u","m","m","a","r","y">>
COMMA_SEP ==
    <<","," ">>
MSG_NO_PAGE ==
    <<"N","o"," ","w","e","b","p","a","g","e"," ","l","o","a","d","e","d"," ","y","e","t",".",
      " ","P","l","e","a","s","e"," ","p","r","o","v","i","d","e"," ","a"," ","U","R","L"," ",
      "o","r"," ","s","e","a","r","c","h"," ","f","o","r"," ","a"," ","w","e","b","s","i","t",
      "e",".">>
MSG_FAREWELL ==
    <<"A","l","r","i","g","h","t",","," ","h","o","p","e"," ","t","h","a","t"," ","w","a","s",
      " ","h","e","l","p","f","u","l","!">>
MSG_NO_PAGE_TO_BOOKMARK ==
    <<"N","o"," ","p","a","g","e"," ","t","o"," ","b","o","o","k","m","a","r","k","!">>
MSG_BOOKMARK_SAVED ==
    <<"B","o","o","k","m","a","r","k"," ","s","a","v","e","d","!">>
MSG_BOOKMARKS_HEAD ==
    <<"Y","o","u","r"," ","b","o","o","k","m","a","r","k","s",":","\n">>
MSG_NO_BOOKMARKS ==
    <<"Y","o","u"," ","d","o","n","'","t"," ","h","a","v","e"," ","a","n","y"," ","b","o","o",
      "k","m","a","r","k","s"," ","y","e","t",".">>
MSG_BOOKMARK_NOT_FOUND ==
    <<"C","o","u","l","d","n","'","t"," ","f","i","n","d"," ","a"," ","b","o","o","k","m","a",
      "r","k"," ","f","o","r"," ","'">>
MSG_WEBSITE_NOT_FOUND ==
    <<"C","o","u","l","d","n","'","t"," ","f","i","n","d"," ","a"," ","w","e","b","s","i","t",
      "e"," ","f","o","r"," ","'">>
MSG_SWITCH_FAILED ==
    <<"S","o","r","r","y",","," ","I"," ","c","o","u","l","d","n","'","t"," ","s","w","i","t",
      "c","h"," ","t","o"," ","t","h","a","t"," ","w","e","b","s","i","t","e","."," ","P","l",
      "e","a","s","e"," ","t","r","y"," ","a","g","a","i","n",".">>
MSG_FIRST_PAGE ==
    <<"Y","o","u","'","r","e"," ","a","l","r","e","a","d","y"," ","o","n"," ","t","h","e"," ",
      "f","i","r","s","t"," ","p","a","g","e","!">>
MSG_INFO_HEAD ==
    <<"H","e","r","e","'","s"," ","w","h","a","t"," ","I"," ","f","o","u","n","d",":","\n">>
MSG_INFO_MID ==
    <<"\n","\n","I"," ","c","a","n"," ","h","e","l","p"," ","y","o","u"," ","i","n"," ","t","w",
      "o"," ","w","a","y","s",":","\n","1","."," ","N","a","v","i","g","a","t","e"," ","t","o",
      " ","a"," ","s","e","c","t","i","o","n",":"," ">>
MSG_INFO_TAIL ==
    <<"\n","2","."," ","A","s","k"," ","a","n","o","t","h","e","r"," ","q","u","e","s","t","i",
      "o","n"," ","a","b","o","u","t"," ","t","h","i","s"," ","p","a","g","e">>
MSG_HELP_HEAD ==
    <<"I","'","m"," ","n","o","t"," ","s","u","r","e"," ","w","h","a","t"," ","y","o","u"," ",
      "w","a","n","t"," ","t","o"," ","d","o","."," ","Y","o","u"," ","c","a","n",":","\n","1",
      "."," ","N","a","v","i","g","a","t","e"," ","t","o"," ","a"," ","s","e","c","t","i","o",
      "n",":"," ">>
MSG_HELP_TAIL ==
    <<"\n","2","."," ","A","s","k"," ","f","o","r"," ","s","p","e","c","i","f","i","c"," ","i",
      "n","f","o","r","m","a","t","i","o","n"," ","o","n"," ","t","h","i","s"," ","p","a","g",
      "e">>
MSG_APOLOGY ==
    <<"S","o","r","r","y",","," ","I"," ","e","n","c","o","u","n","t","e","r","e","d"," ","a",
      "n"," ","e","r","r","o","r"," ","p","r","o","c","e","s","s","i","n","g"," ","y","o","u",
      "r"," ","r","e","q","u","e","s","t",".">>
MSG_NO_SUMMARY ==
    <<"C","o","u","l","d"," ","n","o","t"," ","g","e","n","e","r","a","t","e"," ","s","u","m",
      "m","a","r","y">>
MSG_NO_VALID_SITE ==
    <<"C","o","u","l","d"," ","n","o","t"," ","f","i","n","d"," ","a"," ","v","a","l","i","d",
      " ","w","e","b","s","i","t","e">>
MSG_ERROR_PREFIX ==
    <<"E","r","r","o","r",":"," ">>
MSG_NO_CONTENT ==
    <<"C","o","u","l","d"," ","n","o","t"," ","f","i","n","d"," ","a","n","y"," ","c","o","n",
      "t","e","n","t"," ","o","n"," ","t","h","e"," ","p","a","g","e"," ","t","o"," ","a","n",
      "a","l","y","z","e",".">>
MSG_NO_SPECIFIC_INFO ==
    <<"C","o","u","l","d"," ","n","o","t"," ","f","i","n","d"," ","s","p","e","c","i","f","i",
      "c"," ","i","n","f","o","r","m","a","t","i","o","n"," ","a","b","o","u","t"," ","y","o",
      "u","r"," ","q","u","e","r","y",".">>
MSG_INFO_ERROR ==
    <<"C","o","u","l","d"," ","n","o","t"," ","e","x","t","r","a","c","t"," ","s","p","e","c",
      "i","f","i","c"," ","i","n","f","o","r","m","a","t","i","o","n"," ","d","u","e"," ","t",
      "o"," ","a","n"," ","e","r","r","o","r",".">>
MSG_PROCESSING_ERROR ==
    <<"E","r","r","o","r"," ","p","r","o","c","e","s","s","i","n","g"," ","c","o","n","t","e",
      "n","t",":"," ">>
TITLE_UNKNOWN ==
    <<"U","n","k","n","o","w","n"," ","T","i","t","l","e">>
TITLE_NOT_LOADED ==
    <<"C","o","u","l","d"," ","n","o","t"," ","l","o","a","d"," ","p","a","g","e">>

---------------------------------------------------------------------------
\* urllib.parse.urlparse, as far as is_url reads it

SchemeChars == UpperLetters \cup LowerLetters \cup DigitChars \cup {"+", "-", "."}

NetlocEnd == {"/", "?", "#"}

FirstIndex(s, cs) ==
    IF \E i \in 1..Len(s) : s[i] \in cs
    THEN CHOOSE i \in 1..Len(s) : s[i] \in cs /\ \A k \in 1..(i - 1) : s[k] \notin cs
    ELSE 0

HasScheme(s) ==
    LET i == FirstIndex(s, {":"})
    IN  /\ i > 1
        /\ IsUpperChar(s[1]) \/ IsLowerChar(s[1])
        /\ \A k \in 1..(i - 1) : s[k] \in SchemeChars

UrlScheme(s) ==
    IF HasScheme(s) THEN Lower(SubSeq(s, 1, FirstIndex(s, {":"}) - 1)) ELSE <<>>

UrlNetloc(s) ==
    LET rest == IF HasScheme(s) THEN SubSeq(s, FirstIndex(s, {":"}) + 1, Len(s)) ELSE s
        body == SubSeq(rest, 3, Len(rest))
        stop == FirstIndex(body, NetlocEnd)
    IN  IF Len(rest) >= 2 /\ SubSeq(rest, 1, 2) = <<"/", "/">>
        THEN IF stop = 0 THEN body ELSE SubSeq(body, 1, stop - 1)
        ELSE <<>>

is_url(string) ==
    /\ UrlScheme(string) \in {SCHEME_HTTP, SCHEME_HTTPS, SCHEME_WWW}
    /\ UrlNetloc(string) # <<>>

---------------------------------------------------------------------------
\* Further literals

NONE_TEXT ==
    <<"N","o","n","e">>
MSG_BOOKMARK_ITEM ==
    <<"-"," ">>
COLON_SEP ==
    <<":"," ">>
NEWLINE ==
    <<"\n">>
QUOTE ==
    <<"'">>

IntentNames ==
    {EXIT, BACK, INFO_REQUEST, BOOKMARK, LIST_BOOKMARKS, GO_TO_BOOKMARK, SWITCH_WEBSITE}

---------------------------------------------------------------------------
\* The text-generation service: model.generate_content(prompt) returns a
\* response with a text, or raises with a message.

GenOk(text) == [ok |-> TRUE, text |-> text]

GenRaise(message) == [ok |-> FALSE, text |-> message]

Call(site, g) == <<[site |-> site, ok |-> g.ok]>>

\* The response object itself (not its text), as a dict key and in an f-string
ResponseObject(g) == <<"<GenerateContentResponse>">> \o g.text

ResponseStr(g) == <<"<">> \o g.text \o <<">">>

\* f"{value}" of an Optional[str]
Str(v) == IF v = None THEN NONE_TEXT ELSE v

---------------------------------------------------------------------------
\* The environment: what the user says, what the pages show, what the
\* generation service answers

URL_A ==
    <<"h","t","t","p",":","/","/","a",".","i","o">>
URL_ABOUT ==
    <<"h","t","t","p",":","/","/","a",".","i","o","/","a","b">>
URL_SITE ==
    <<"h","t","t","p","s",":","/","/","s",".","i","o">>
SAY_GO_BACK ==
    <<"g","o"," ","b","a","c","k">>
SAY_EXIT ==
    <<"e","x","i","t">>
SAY_HELLO ==
    <<"h","e","l","l","o">>
SAY_STOP_BACK ==
    <<"S","t","o","p",","," ","b","a","c","k">>
LABEL_ABOUT ==
    <<"A","b","o","u","t">>
TEXT_DOCS ==
    <<"D","o","c","s">>
TEXT_SUMMARY ==
    <<" ","A"," ","s","u","m","m","a","r","y","\n">>
TEXT_NAVIGATION ==
    <<"n","a","v","i","g","a","t","i","o","n","\n">>
TEXT_NONE_UPPER ==
    <<"N","O","N","E">>
TEXT_NONE ==
    <<"n","o","n","e">>
TEXT_ABOUT_QUOTED ==
    <<"\"","A","b","o","u","t","\"">>
TEXT_PRICING ==
    <<"P","r","i","c","i","n","g">>
TEXT_ACME ==
    <<" ","A","c","m","e">>
TEXT_SITE_URL ==
    <<" ","h","t","t","p","s",":","/","/","s",".","i","o","\n">>
TEXT_ANSWER ==
    <<"I","t"," ","i","s"," ","5",".">>
TEXT_BODY ==
    <<"B","o","d","y">>
ERR_503 ==
    <<"5","0","3">>
TITLE_ACME ==
    <<"A","c","m","e">>
TEXT_BARE_HOST ==
    <<"s",".","i","o">>

\* the longest history the model follows
MaxHistory == 3

Utterances == {URL_A, SAY_GO_BACK, SAY_EXIT, SAY_HELLO, SAY_STOP_BACK}

Prompts == {SAY_HELLO}

Urls == {URL_A, URL_ABOUT}

PagePlain ==
    [broken |-> FALSE, title |-> TEXT_DOCS, main_links |-> <<>>,
     main_headings |-> <<>>, quick_summary |-> TEXT_BODY]

PageNav ==
    [broken |-> FALSE, title |-> TEXT_DOCS, main_links |-> <<<<LABEL_ABOUT, URL_ABOUT>>>>,
     main_headings |-> <<>>, quick_summary |-> TEXT_BODY]

Pages == {PagePlain, PageNav}

Unused == GenRaise(<<>>)

SummaryOutcomes == {GenRaise(ERR_503), GenOk(TEXT_DOCS), GenOk(TEXT_SUMMARY)}

\* a summary the turn goes on to overwrite: only whether the call raised shows
RefreshOutcomes == {GenRaise(ERR_503), GenOk(TEXT_DOCS)}

ClassifyOutcomes ==
    {GenRaise(ERR_503), GenOk(INFO_REQUEST), GenOk(TEXT_NAVIGATION), GenOk(BOOKMARK),
     GenOk(LIST_BOOKMARKS), GenOk(GO_TO_BOOKMARK), GenOk(SWITCH_WEBSITE),
     GenOk(TEXT_NONE_UPPER), GenOk(EXIT)}

NavOutcomes ==
    {GenRaise(ERR_503), GenOk(TEXT_ABOUT_QUOTED), GenOk(TEXT_NONE), GenOk(TEXT_PRICING)}

TitleOutcomes == {GenRaise(ERR_503), GenOk(TEXT_ACME)}

NameOutcomes == {GenRaise(ERR_503), GenOk(TEXT_ACME)}

\* the answer to the title prompt of a GO_TO_BOOKMARK turn
BookmarkTitleOutcomes == {GenRaise(ERR_503), GenOk(TITLE_ACME), GenOk(TEXT_NONE)}

UrlOutcomes ==
    {GenRaise(ERR_503), GenOk(TEXT_NONE), GenOk(TEXT_BARE_HOST), GenOk(TEXT_SITE_URL)}

InfoOutcomes == {GenRaise(ERR_503), GenOk(TEXT_ANSWER)}

Contents ==
    {[broken |-> TRUE, text |-> <<>>], [broken |-> FALSE, text |-> <<>>],
     [broken |-> FALSE, text |-> TEXT_BODY]}

\* every text a user or the service supplies
Texts ==
    Utterances \cup Prompts \cup
    {g.text : g \in SummaryOutcomes \cup ClassifyOutcomes \cup NavOutcomes \cup TitleOutcomes
                    \cup BookmarkTitleOutcomes \cup NameOutcomes \cup UrlOutcomes \cup InfoOutcomes \cup {Unused}}

---------------------------------------------------------------------------
\* The string functions of the code, tabulated over Texts (a constant
\* function is evaluated once); any other text is computed.

StripTable == [s \in Texts |-> Strip(s)]

StripText(s) == IF s \in Texts THEN StripTable[s] ELSE Strip(s)

IsUrlTable == [s \in Texts \cup {Strip(x) : x \in Texts} |-> is_url(s)]

IsUrl(s) == IF s \in DOMAIN IsUrlTable THEN IsUrlTable[s] ELSE is_url(s)

---------------------------------------------------------------------------
\* FastWebSummarizer

\* quick_extract: the digest of the page the renderer shows for url
quick_extract(url, page) ==
    IF page.broken
    THEN [title |-> TITLE_NOT_LOADED, main_links |-> <<>>,
          main_headings |-> <<>>, quick_summary |-> <<>>]
    ELSE [title |-> page.title, main_links |-> page.main_links,
          main_headings |-> page.main_headings, quick_summary |-> page.quick_summary]

\* quick_summarize(url): one extraction, one generation call, no cache
quick_summarize(url, page, g) ==
    IF g.ok
    THEN [summary |-> StripText(g.text), links |-> quick_extract(url, page).main_links,
          calls |-> Call("quick_summarize", g), renders |-> 1]
    ELSE [summary |-> MSG_NO_SUMMARY, links |-> <<>>,
          calls |-> Call("quick_summarize", g), renders |-> 1]

\* _extract_specific_info(text, timeout, prompt, default)
extract_specific_info(text, g1, g2, default) ==
    IF text = <<>> THEN [text |-> default, calls |-> <<>>]
    ELSE IF ~g1.ok
    THEN [text |-> MSG_PROCESSING_ERROR \o g1.text, calls |-> Call("extract", g1)]
    ELSE IF ~g2.ok
    THEN [text |-> MSG_PROCESSING_ERROR \o g2.text,
          calls |-> Call("extract", g1) \o Call("cleanup", g2)]
    ELSE [text |-> StripText(g2.text), calls |-> Call("extract", g1) \o Call("cleanup", g2)]

\* get_specific_info(url, query); content is the combined text of the page,
\* content.broken a renderer error
get_specific_info(url, content, g1, g2) ==
    IF content.broken THEN [text |-> MSG_INFO_ERROR, calls |-> <<>>]
    ELSE IF content.text = <<>> THEN [text |-> MSG_NO_CONTENT, calls |-> <<>>]
    ELSE extract_specific_info(content.text, g1, g2, MSG_NO_SPECIFIC_INFO)

---------------------------------------------------------------------------
\* _match_user_intent

ExitWords == {KW_QUIT, KW_EXIT, KW_BYE, KW_GOODBYE, KW_STOP, KW_END}

BackWords == {KW_BACK, KW_PREVIOUS}

HasExitWord(user_input) == \E word \in ExitWords : Contains(word, Lower(user_input))

HasBackWord(user_input) == \E word \in BackWords : Contains(word, Lower(user_input))

\* keyword_intent without its keyword tests: every input goes to the classifier
\* the keyword tests without user_input.lower()
keyword_intent_case_sensitive(user_input) ==
    IF \E word \in ExitWords : Contains(word, user_input) THEN EXIT
    ELSE IF \E word \in BackWords : Contains(word, user_input) THEN BACK
    ELSE None

keyword_intent_back_first(user_input) ==
    IF HasBackWord(user_input) THEN BACK
    ELSE IF HasExitWord(user_input) THEN EXIT
    ELSE None

keyword_intent_skipped(user_input) == None

\* the two keyword tests, before any call to the service
keyword_intent(user_input) ==
    IF HasExitWord(user_input) THEN EXIT
    ELSE IF HasBackWord(user_input) THEN BACK
    ELSE None

KeywordTable == [s \in Texts |-> keyword_intent(s)]

KeywordIntent(s) == IF s \in Texts THEN KeywordTable[s] ELSE keyword_intent(s)

\* response.text.strip().upper()
intent_text(text) == Upper(Strip(text))

IntentTable == [s \in Texts |-> intent_text(s)]

IntentText(s) == IF s \in Texts THEN IntentTable[s] ELSE intent_text(s)

\* nav_response.text.strip().strip('"').strip("'")
match_text(text) == StripChars(StripChars(Strip(text), {"\""}), {"'"})

MatchTable == [s \in Texts |-> match_text(s)]

MatchText(s) == IF s \in Texts THEN MatchTable[s] ELSE match_text(s)

\* match_navigation without the membership test
match_navigation_unchecked(available_options, gnav) == MatchText(gnav.text)

\* the second, constrained call of a NAVIGATION request
match_navigation(available_options, gnav) ==
    IF HasKey(available_options, MatchText(gnav.text)) THEN MatchText(gnav.text) ELSE None

\* the classification call and what follows it
classify_intent(available_options, gcls, gnav) ==
    IF ~gcls.ok THEN [matched |-> None, calls |-> Call("classify", gcls)]
    ELSE IF IntentText(gcls.text) = INFO_REQUEST
    THEN [matched |-> INFO_REQUEST, calls |-> Call("classify", gcls)]
    ELSE IF IntentText(gcls.text) = NAVIGATION
    THEN IF ~gnav.ok
         THEN [matched |-> None,
               calls |-> Call("classify", gcls) \o Call("navigation", gnav)]
         ELSE [matched |-> match_navigation(available_options, gnav),
               calls |-> Call("classify", gcls) \o Call("navigation", gnav)]
    ELSE IF IntentText(gcls.text) \in {BOOKMARK, LIST_BOOKMARKS, GO_TO_BOOKMARK, SWITCH_WEBSITE}
    THEN [matched |-> IntentText(gcls.text), calls |-> Call("classify", gcls)]
    ELSE [matched |-> None, calls |-> Call("classify", gcls)]

match_user_intent(user_input, available_options, gcls, gnav) ==
    IF KeywordIntent(user_input) # None
    THEN [matched |-> KeywordIntent(user_input), calls |-> <<>>]
    ELSE classify_intent(available_options, gcls, gnav)

---------------------------------------------------------------------------
\* agent_response

\* What a turn has done when it returns or raises: the session state, the
\* response text, the URL, the navigation options in hand, whether an
\* exception is propagating, the generation calls and page loads made.
\* switch: what find_website handed back to a SWITCH_WEBSITE turn, if called
NotSwitched == [called |-> FALSE, still |-> FALSE, url |-> None]

Outcome(h, b, t, summary, url, nav, calls, renders) ==
    [h |-> h, b |-> b, t |-> t, summary |-> summary, url |-> url, nav |-> nav,
     exc |-> FALSE, matched |-> None, consulted |-> FALSE,
     calls |-> calls, renders |-> renders, error |-> FALSE, switch |-> NotSwitched,
     options |-> <<>>]

Truthy(v) == v # None /\ v # <<>>

\* a label step that raises nothing
label_step_passes(current_summary, current_nav_options) == FALSE

\* "Add navigation options": current_summary is a str, so with options in
\* hand and "summary" in the text, current_summary["summary"] raises TypeError
label_step_raises(current_summary, current_nav_options) ==
    current_nav_options # <<>> /\ Contains(SUMMARY_KEY, current_summary)

\* the end of the try block and the except clause
finish(r) ==
    IF r.exc \/ label_step_raises(r.summary, r.nav)
    THEN [r EXCEPT !.summary = MSG_APOLOGY, !.url = None, !.error = TRUE]
    ELSE r

\* url_branch that starts the history over at the URL given
url_branch_restarting(h, b, t, user_input, page, g) ==
    LET s == quick_summarize(user_input, page, g)
    IN  Outcome(<<user_input>>, b, t, s.summary, user_input, s.links,
                s.calls, s.renders)

\* the turn of a URL input, up to the label step
url_branch(h, b, t, user_input, page, g) ==
    LET s == quick_summarize(user_input, page, g)
    IN  Outcome(Append(h, user_input), b, t, s.summary, user_input, s.links,
                s.calls, s.renders)

\* exit_branch that also ends the session's history
exit_branch_clearing(p) == [p EXCEPT !.summary = MSG_FAREWELL, !.h = <<>>]

exit_branch(p) == [p EXCEPT !.summary = MSG_FAREWELL]

bookmark_branch(p, b, t, new_url) ==
    IF ~Truthy(new_url)
    THEN [p EXCEPT !.summary = MSG_NO_PAGE_TO_BOOKMARK]
    ELSE [p EXCEPT !.b = DictPut(b, t, new_url), !.summary = MSG_BOOKMARK_SAVED]

BookmarkLine(item) == MSG_BOOKMARK_ITEM \o Str(item[1]) \o COLON_SEP \o item[2]

list_bookmarks_branch(p, b) ==
    IF b # <<>>
    THEN [p EXCEPT !.summary =
            MSG_BOOKMARKS_HEAD \o Join(NEWLINE, [i \in 1..Len(b) |-> BookmarkLine(b[i])])]
    ELSE [p EXCEPT !.summary = MSG_NO_BOOKMARKS]

\* title is the response object, never its text
go_to_bookmark_branch(p, b, gtitle, page, g) ==
    LET title == ResponseObject(gtitle)
        s     == quick_summarize(DictGet(b, title), page, g)
    IN  IF ~gtitle.ok
        THEN [p EXCEPT !.exc = TRUE, !.calls = @ \o Call("bookmark_title", gtitle)]
        ELSE IF HasKey(b, title)
        THEN [p EXCEPT !.url = DictGet(b, title), !.summary = s.summary, !.nav = s.links,
                       !.calls = @ \o Call("bookmark_title", gtitle) \o s.calls,
                       !.renders = @ + s.renders]
        ELSE [p EXCEPT !.summary = MSG_BOOKMARK_NOT_FOUND \o ResponseStr(gtitle) \o QUOTE,
                       !.calls = @ \o Call("bookmark_title", gtitle)]

\* back_branch with the test len(link_history) >= 1: link_history[-2] raises
\* IndexError on a history of one
back_branch_ge1(p, h, page, g) ==
    LET previous_url == h[Len(h) - 1]
        s == quick_summarize(previous_url, page, g)
    IN  IF Len(h) > 1
        THEN [p EXCEPT !.url = previous_url, !.summary = s.summary, !.nav = s.links,
                       !.calls = @ \o s.calls, !.renders = @ + s.renders]
        ELSE IF Len(h) = 1 THEN [p EXCEPT !.exc = TRUE]
        ELSE [p EXCEPT !.summary = MSG_FIRST_PAGE]

\* back_branch with the test len(link_history) != 1: link_history[-2] raises
\* IndexError on an empty history
back_branch_ne1(p, h, page, g) ==
    LET previous_url == h[Len(h) - 1]
        s == quick_summarize(previous_url, page, g)
    IN  IF Len(h) > 1
        THEN [p EXCEPT !.url = previous_url, !.summary = s.summary, !.nav = s.links,
                       !.calls = @ \o s.calls, !.renders = @ + s.renders]
        ELSE IF Len(h) = 0 THEN [p EXCEPT !.exc = TRUE]
        ELSE [p EXCEPT !.summary = MSG_FIRST_PAGE]

\* back_branch that pops the current page, the first page included
back_branch_pop(p, h, page, g) ==
    IF Len(h) >= 1
    THEN [p EXCEPT !.h = SubSeq(h, 1, Len(h) - 1), !.summary = MSG_FIRST_PAGE]
    ELSE [p EXCEPT !.summary = MSG_FIRST_PAGE]

back_branch(p, h, page, g) ==
    LET previous_url == h[Len(h) - 1]
        s == quick_summarize(previous_url, page, g)
    IN  IF Len(h) > 1
        THEN [p EXCEPT !.url = previous_url, !.summary = s.summary, !.nav = s.links,
                       !.calls = @ \o s.calls, !.renders = @ + s.renders]
        ELSE [p EXCEPT !.summary = MSG_FIRST_PAGE]

\* info_request_branch that records the page it answered about as a visit
info_request_branch_pushing(p, new_url, content, g1, g2) ==
    LET info == get_specific_info(new_url, content, g1, g2)
    IN  [p EXCEPT !.h = Append(p.h, new_url),
                  !.summary = MSG_INFO_HEAD \o info.text \o MSG_INFO_MID
                              \o Join(COMMA_SEP, DictKeys(p.nav)) \o MSG_INFO_TAIL,
                  !.calls = @ \o info.calls, !.renders = @ + 1]

info_request_branch(p, new_url, content, g1, g2) ==
    LET info == get_specific_info(new_url, content, g1, g2)
    IN  [p EXCEPT !.summary = MSG_INFO_HEAD \o info.text \o MSG_INFO_MID
                              \o Join(COMMA_SEP, DictKeys(p.nav)) \o MSG_INFO_TAIL,
                  !.calls = @ \o info.calls, !.renders = @ + 1]

\* navigate_branch that takes the label followed as the title of the page
navigate_branch_titled(p, h, matched_option, page, g) ==
    LET new_url == DictGet(p.nav, matched_option)
        s == quick_summarize(new_url, page, g)
    IN  [p EXCEPT !.h = Append(h, new_url), !.t = matched_option, !.url = new_url,
                  !.summary = s.summary, !.nav = s.links, !.calls = @ \o s.calls,
                  !.renders = @ + s.renders]

navigate_branch(p, h, matched_option, page, g) ==
    LET new_url == DictGet(p.nav, matched_option)
        s == quick_summarize(new_url, page, g)
    IN  [p EXCEPT !.h = Append(h, new_url), !.url = new_url, !.summary = s.summary,
                  !.nav = s.links, !.calls = @ \o s.calls, !.renders = @ + s.renders]

help_branch(p) ==
    [p EXCEPT !.summary = MSG_HELP_HEAD \o Join(COMMA_SEP, DictKeys(p.nav)) \o MSG_HELP_TAIL]

---------------------------------------------------------------------------
\* find_website

\* find_website_found that returns the summary without storing the title
find_website_found_untitled(b, t, fe, r) ==
    [h |-> r.h, b |-> b, t |-> t,
     summary |-> IF fe.gtitle.ok THEN r.summary ELSE MSG_ERROR_PREFIX \o fe.gtitle.text,
     url |-> IF fe.gtitle.ok THEN r.url ELSE <<>>, still |-> ~fe.gtitle.ok,
     calls |-> Call("find_url", fe.gurl) \o r.calls \o Call("find_title", fe.gtitle),
     renders |-> r.renders]

\* after the URL came back well-formed: r is what the nested
\* agent_response(summarizer, url) returned
\* find_website_found that takes the nested turn's visit back out of the history
find_website_found_unrecorded(b, t, fe, r) ==
    IF ~fe.gtitle.ok
    THEN [h |-> SubSeq(r.h, 1, Len(r.h) - 1), b |-> b, t |-> t,
          summary |-> MSG_ERROR_PREFIX \o fe.gtitle.text,
          url |-> <<>>, still |-> TRUE,
          calls |-> Call("find_url", fe.gurl) \o r.calls \o Call("find_title", fe.gtitle),
          renders |-> r.renders]
    ELSE [h |-> SubSeq(r.h, 1, Len(r.h) - 1), b |-> b, t |-> StripText(fe.gtitle.text),
          summary |-> r.summary, url |-> r.url, still |-> FALSE,
          calls |-> Call("find_url", fe.gurl) \o r.calls \o Call("find_title", fe.gtitle),
          renders |-> r.renders]

find_website_found(b, t, fe, r) ==
    IF ~fe.gtitle.ok
    THEN [h |-> r.h, b |-> b, t |-> t, summary |-> MSG_ERROR_PREFIX \o fe.gtitle.text,
          url |-> <<>>, still |-> TRUE,
          calls |-> Call("find_url", fe.gurl) \o r.calls \o Call("find_title", fe.gtitle),
          renders |-> r.renders]
    ELSE [h |-> r.h, b |-> b, t |-> StripText(fe.gtitle.text), summary |-> r.summary,
          url |-> r.url, still |-> FALSE,
          calls |-> Call("find_url", fe.gurl) \o r.calls \o Call("find_title", fe.gtitle),
          renders |-> r.renders]

\* find_website without the is_url test on the answer
find_website_unvalidated(prompt, h, b, t, fe) ==
    IF ~fe.gurl.ok
    THEN [h |-> h, b |-> b, t |-> t, summary |-> MSG_ERROR_PREFIX \o fe.gurl.text,
          url |-> <<>>, still |-> TRUE, calls |-> Call("find_url", fe.gurl), renders |-> 0]
    ELSE find_website_found(b, t, fe,
            finish(url_branch(h, b, t, StripText(fe.gurl.text), fe.page, fe.g)))

\* fe: the outcomes of its generation calls and the page it loads
find_website(prompt, h, b, t, fe) ==
    IF ~fe.gurl.ok
    THEN [h |-> h, b |-> b, t |-> t, summary |-> MSG_ERROR_PREFIX \o fe.gurl.text,
          url |-> <<>>, still |-> TRUE, calls |-> Call("find_url", fe.gurl), renders |-> 0]
    ELSE IF ~IsUrl(StripText(fe.gurl.text))
    THEN [h |-> h, b |-> b, t |-> t, summary |-> MSG_NO_VALID_SITE,
          url |-> <<>>, still |-> TRUE, calls |-> Call("find_url", fe.gurl), renders |-> 0]
    ELSE find_website_found(b, t, fe,
            finish(url_branch(h, b, t, StripText(fe.gurl.text), fe.page, fe.g)))

\* after find_website returned f for website_name
switch_website_found(p, website_name, f, se) ==
    LET s == quick_summarize(f.url, se.page, se.g)
        switch == [called |-> TRUE, still |-> f.still, url |-> f.url]
    IN  IF ~f.still /\ Truthy(f.url)
        THEN [p EXCEPT !.h = Append(f.h, f.url), !.t = f.t, !.url = f.url,
                       !.summary = f.summary, !.nav = s.links, !.switch = switch,
                       !.calls = @ \o Call("website_name", se.gname) \o f.calls \o s.calls,
                       !.renders = @ + f.renders + s.renders]
        ELSE [p EXCEPT !.h = f.h, !.t = f.t, !.url = f.url, !.switch = switch,
                       !.summary = MSG_WEBSITE_NOT_FOUND \o website_name \o QUOTE,
                       !.calls = @ \o Call("website_name", se.gname) \o f.calls,
                       !.renders = @ + f.renders]

\* se: the outcome of the name extraction, fe for find_website, and the page
\* and generation outcome of the second quick_summarize
switch_website_branch(p, h, b, t, se) ==
    IF ~se.gname.ok
    THEN [p EXCEPT !.summary = MSG_SWITCH_FAILED,
                   !.calls = @ \o Call("website_name", se.gname)]
    ELSE switch_website_found(p, StripText(se.gname.text),
            find_website(StripText(se.gname.text), h, b, t, se.fe), se)

---------------------------------------------------------------------------
\* agent_response, whole

\* the branch of a non-URL input up to intent resolution
command_prefix(h, b, t, e) ==
    LET new_url == IF h # <<>> THEN h[Len(h)] ELSE None
        s == quick_summarize(new_url, e.page, e.g)
    IN  IF Truthy(new_url)
        THEN Outcome(h, b, t, s.summary, new_url, s.links, s.calls, s.renders)
        ELSE Outcome(h, b, t, MSG_NO_PAGE, new_url, <<>>, <<>>, 0)

\* dispatch that follows a label of the options in hand before anything else
dispatch_label_first(p, h, b, t, matched_option, e) ==
    IF Truthy(matched_option) /\ HasKey(p.nav, matched_option)
    THEN navigate_branch(p, h, matched_option, e.page2, e.g2)
    ELSE IF matched_option = EXIT THEN exit_branch(p)
    ELSE IF matched_option = BOOKMARK THEN bookmark_branch(p, b, t, p.url)
    ELSE IF matched_option = LIST_BOOKMARKS THEN list_bookmarks_branch(p, b)
    ELSE IF matched_option = GO_TO_BOOKMARK
    THEN go_to_bookmark_branch(p, b, e.gtitle, e.page2, e.g2)
    ELSE IF matched_option = SWITCH_WEBSITE THEN switch_website_branch(p, h, b, t, e.se)
    ELSE IF matched_option = BACK THEN back_branch(p, h, e.page2, e.g2)
    ELSE IF matched_option = INFO_REQUEST
    THEN info_request_branch(p, p.url, e.info.content, e.info.g1, e.info.g2)
    ELSE help_branch(p)

\* the dispatch on matched_option, in the order of the elif chain
dispatch(p, h, b, t, matched_option, e) ==
    IF matched_option = EXIT THEN exit_branch(p)
    ELSE IF matched_option = BOOKMARK THEN bookmark_branch(p, b, t, p.url)
    ELSE IF matched_option = LIST_BOOKMARKS THEN list_bookmarks_branch(p, b)
    ELSE IF matched_option = GO_TO_BOOKMARK
    THEN go_to_bookmark_branch(p, b, e.gtitle, e.page2, e.g2)
    ELSE IF matched_option = SWITCH_WEBSITE THEN switch_website_branch(p, h, b, t, e.se)
    ELSE IF matched_option = BACK THEN back_branch(p, h, e.page2, e.g2)
    ELSE IF matched_option = INFO_REQUEST
    THEN info_request_branch(p, p.url, e.info.content, e.info.g1, e.info.g2)
    ELSE IF Truthy(matched_option) THEN navigate_branch(p, h, matched_option, e.page2, e.g2)
    ELSE help_branch(p)

\* p: the turn so far; m: what _match_user_intent returned
command_dispatch(p, m, h, b, t, e) ==
    dispatch([p EXCEPT !.matched = m.matched, !.consulted = TRUE, !.calls = @ \o m.calls,
                       !.options = p.nav],
             h, b, t, m.matched, e)

command_resolve(p, h, b, t, user_input, e) ==
    command_dispatch(p, match_user_intent(user_input, p.nav, e.gcls, e.gnav), h, b, t, e)

command_branch(h, b, t, user_input, e) ==
    command_resolve(command_prefix(h, b, t, e), h, b, t, user_input, e)

\* the try block of agent_response up to the label step
try_block(h, b, t, user_input, e) ==
    IF IsUrl(user_input)
    THEN url_branch(h, b, t, user_input, e.page, e.g)
    ELSE command_branch(h, b, t, user_input, e)

agent_response(h, b, t, user_input, e) ==
    IF IsUrl(user_input)
    THEN finish(url_branch(h, b, t, user_input, e.page, e.g))
    ELSE finish(command_branch(h, b, t, user_input, e))

---------------------------------------------------------------------------
\* What the environment can answer within one call of an operation; an
\* outcome the code never reads is left at a fixed value.

InfoEnvs ==
    {[content |-> c, g1 |-> Unused, g2 |-> Unused] : c \in {c \in Contents : c.text = <<>>}}
    \cup {[content |-> c, g1 |-> g1, g2 |-> Unused] :
            c \in {c \in Contents : c.text # <<>>}, g1 \in {g \in InfoOutcomes : ~g.ok}}
    \cup {[content |-> c, g1 |-> g1, g2 |-> g2] :
            c \in {c \in Contents : c.text # <<>>}, g1 \in {g \in InfoOutcomes : g.ok},
            g2 \in InfoOutcomes}

GoodUrlOutcomes == {u \in UrlOutcomes : u.ok /\ is_url(Strip(u.text))}

FindEnvs ==
    {[gurl |-> gurl, page |-> page, g |-> g, gtitle |-> gtitle] :
        gurl \in GoodUrlOutcomes, page \in Pages, g \in SummaryOutcomes,
        gtitle \in TitleOutcomes}
    \cup
    {[gurl |-> gurl, page |-> PagePlain, g |-> Unused, gtitle |-> Unused] :
        gurl \in UrlOutcomes \ GoodUrlOutcomes}

FindSucceeds(fe) ==
    LET f == find_website(<<>>, <<>>, <<>>, None, fe) IN ~f.still /\ Truthy(f.url)

SwitchEnvs ==
    {[gname |-> gname, fe |-> fe, page |-> page, g |-> g] :
        gname \in {n \in NameOutcomes : n.ok}, fe \in {f \in FindEnvs : FindSucceeds(f)},
        page \in Pages, g \in RefreshOutcomes}
    \cup
    {[gname |-> gname, fe |-> fe, page |-> PagePlain, g |-> Unused] :
        gname \in {n \in NameOutcomes : n.ok}, fe \in {f \in FindEnvs : ~FindSucceeds(f)}}
    \cup
    {[gname |-> gname, fe |-> CHOOSE fe \in FindEnvs : ~fe.gurl.ok,
      page |-> PagePlain, g |-> Unused] :
        gname \in {n \in NameOutcomes : ~n.ok}}

NoInfo == CHOOSE i \in InfoEnvs : i.content.broken

NoSwitch == CHOOSE s \in SwitchEnvs : ~s.gname.ok

\* the outcomes a turn with this input can meet in this session state
TurnEnvs(h, b, t, user_input) ==
    IF IsUrl(user_input)
    THEN {[page |-> page, g |-> g, gcls |-> Unused, gnav |-> Unused, gtitle |-> Unused,
           page2 |-> PagePlain, g2 |-> Unused, info |-> NoInfo, se |-> NoSwitch] :
            page \in Pages, g \in SummaryOutcomes}
    ELSE UNION {
        LET m == match_user_intent(user_input,
                     command_prefix(h, b, t, [page |-> pre[1], g |-> pre[2]]).nav,
                     k[1], k[2]).matched
            again == \/ m = BACK /\ Len(h) > 1
                     \/ Truthy(m) /\ m \notin IntentNames
        IN  {[page |-> pre[1], g |-> pre[2], gcls |-> k[1], gnav |-> k[2],
              gtitle |-> gtitle, page2 |-> snd[1], g2 |-> snd[2], info |-> info, se |-> se] :
                gtitle \in (IF m = GO_TO_BOOKMARK THEN BookmarkTitleOutcomes ELSE {Unused}),
                snd \in (IF again THEN Pages \X SummaryOutcomes ELSE {<<PagePlain, Unused>>}),
                info \in (IF m = INFO_REQUEST THEN InfoEnvs ELSE {NoInfo}),
                se \in (IF m = SWITCH_WEBSITE THEN SwitchEnvs ELSE {NoSwitch})} :
        pre \in (IF h = <<>> THEN {<<PagePlain, Unused>>} ELSE Pages \X RefreshOutcomes),
        k \in (IF KeywordIntent(user_input) # None THEN {<<Unused, Unused>>}
               ELSE {<<c, n>> \in ClassifyOutcomes \X (NavOutcomes \cup {Unused}) :
                        (c.ok /\ IntentText(c.text) = NAVIGATION) <=> (n # Unused)})}

---------------------------------------------------------------------------
\* The session: the caller of test_combined_interaction sends one message
\* at a time and reads the result before the next

Idle ==
    [op |-> "idle", input |-> <<>>, summary |-> <<>>, url |-> None, matched |-> None,
     nav |-> <<>>, consulted |-> FALSE, error |-> FALSE, still |-> FALSE, sites |-> {},
     all_raised |-> FALSE, raised |-> {}, renders |-> 0, switch |-> NotSwitched,
     gurl |-> Unused, gtitle |-> Unused, options |-> <<>>,
     h0 |-> <<>>, b0 |-> <<>>, t0 |-> None]

TurnRecord(op, input, h, b, t, r) ==
    [op |-> op, input |-> input, summary |-> r.summary, url |-> r.url,
     matched |-> r.matched, nav |-> r.nav, consulted |-> r.consulted, error |-> r.error,
     still |-> r.still, sites |-> {r.calls[i].site : i \in 1..Len(r.calls)},
     all_raised |-> \A i \in 1..Len(r.calls) : ~r.calls[i].ok,
     raised |-> {r.calls[i].site : i \in {j \in 1..Len(r.calls) : ~r.calls[j].ok}},
     renders |-> r.renders, switch |-> r.switch, gurl |-> r.gurl, gtitle |-> r.gtitle,
     options |-> r.options,
     h0 |-> h, b0 |-> b, t0 |-> t]

Init ==
    /\ link_history = <<>>
    /\ bookmarks = <<>>
    /\ current_title = None
    /\ turn = Idle

Commit(op, input, result) ==
    \E r \in {result} :
        /\ Len(r.h) <= MaxHistory
        /\ link_history' = r.h
        /\ bookmarks' = r.b
        /\ current_title' = r.t
        /\ turn' = TurnRecord(op, input, link_history, bookmarks, current_title, r)

\* one turn: agent_response(summarizer, user_input), also right after
\* find_website
AgentResponse ==
    /\ turn.op \in {"idle", "find_website"}
    /\ \E user_input \in Utterances :
       \E e \in TurnEnvs(link_history, bookmarks, current_title, user_input) :
            Commit("agent_response", user_input,
                agent_response(link_history, bookmarks, current_title, user_input, e)
                @@ [still |-> FALSE, gurl |-> Unused, gtitle |-> e.gtitle])

\* a direct call find_website(prompt, summarizer)
FindWebsite ==
    /\ turn.op = "idle"
    /\ \E prompt \in Prompts, fe \in FindEnvs :
            Commit("find_website", prompt,
                find_website(prompt, link_history, bookmarks, current_title, fe)
                @@ [matched |-> None, nav |-> <<>>, consulted |-> FALSE, error |-> FALSE,
                    switch |-> NotSwitched, gurl |-> fe.gurl, gtitle |-> fe.gtitle,
                    options |-> <<>>])

\* a direct call summarizer.quick_summarize(url), also right after another
QuickSummarize ==
    /\ turn.op \in {"idle", "quick_summarize"}
    /\ \E url \in Urls, page \in Pages, g \in SummaryOutcomes :
        \E s \in {quick_summarize(url, page, g)} :
            Commit("quick_summarize", url,
                [h |-> link_history, b |-> bookmarks, t |-> current_title,
                 summary |-> s.summary, nav |-> s.links, url |-> url,
                 calls |-> s.calls, renders |-> s.renders,
                 matched |-> None, consulted |-> FALSE, error |-> FALSE, still |-> FALSE,
                 switch |-> NotSwitched, gurl |-> Unused, gtitle |-> Unused,
                 options |-> <<>>])

\* the caller has read the result and goes on to its next message
NextMessage ==
    /\ turn.op # "idle"
    /\ turn' = Idle
    /\ UNCHANGED <<link_history, bookmarks, current_title>>

Next == AgentResponse \/ FindWebsite \/ QuickSummarize \/ NextMessage

Spec == Init /\ [][Next]_vars


---------------------------------------------------------------------------
\* _match_user_intent as a function: its inputs are drawn at the start and
\* Resolve applies it

SAY_RECOMMEND ==
    <<"I"," ","r","e","c","o","m","m","e","n","d"," ","i","t">>
SAY_FEEDBACK ==
    <<"F","e","e","d","b","a","c","k">>
SAY_PREVIOUS ==
    <<"P","R","E","V","I","O","U","S"," ","o","n","e">>
LABEL_NONE ==
    <<"n","o","n","e">>
TEXT_ABOUT_SPACED ==
    <<" ","A","b","o","u","t","\n">>
TEXT_ABOUT_SINGLE ==
    <<"'","A","b","o","u","t","'">>
TEXT_NAV_UPPER ==
    <<"N","A","V","I","G","A","T","I","O","N">>

IntentInputs ==
    {SAY_HELLO, SAY_EXIT, SAY_GO_BACK, SAY_STOP_BACK, SAY_RECOMMEND, SAY_FEEDBACK,
     SAY_PREVIOUS, URL_A}

OptionSets ==
    {<<>>, <<<<LABEL_ABOUT, URL_ABOUT>>>>,
     <<<<LABEL_ABOUT, URL_ABOUT>>, <<LABEL_NONE, URL_A>>, <<EXIT, URL_SITE>>>>}

IntentClassifyOutcomes == ClassifyOutcomes \cup {GenOk(TEXT_NAV_UPPER), GenOk(BACK)}

IntentNavOutcomes ==
    NavOutcomes \cup {GenOk(TEXT_ABOUT_SPACED), GenOk(TEXT_ABOUT_SINGLE), GenOk(EXIT), GenOk(<<>>)}

InitIntent ==
    /\ link_history = <<>>
    /\ bookmarks = <<>>
    /\ current_title = None
    /\ \E user_input \in IntentInputs, options \in OptionSets,
          gcls \in IntentClassifyOutcomes, gnav \in IntentNavOutcomes :
            turn = [op |-> "input", input |-> user_input, options |-> options,
                    gcls |-> gcls, gnav |-> gnav, matched |-> None, sites |-> {}]

Resolve ==
    /\ turn.op = "input"
    /\ \E m \in {match_user_intent(turn.input, turn.options, turn.gcls, turn.gnav)} :
            turn' = [turn EXCEPT !.op = "resolved", !.matched = m.matched,
                                 !.sites = {m.calls[i].site : i \in 1..Len(m.calls)}]
    /\ UNCHANGED <<link_history, bookmarks, current_title>>

NextIntent == Resolve

SpecIntent == InitIntent /\ [][NextIntent]_vars

---------------------------------------------------------------------------
\* Claims

IsTurn == turn.op = "agent_response"

UrlTurn == IsTurn /\ is_url(turn.input)

CommandTurn == IsTurn /\ ~is_url(turn.input)

StateUnchanged ==
    /\ link_history = turn.h0
    /\ bookmarks = turn.b0
    /\ current_title = turn.t0

\* C1: a turn with a well-formed URL U appends U to the history and returns
\* U as the turn's URL.
C1_UrlTurnPushesAndReturns ==
    UrlTurn => /\ link_history = Append(turn.h0, turn.input)
               /\ turn.url = turn.input

\* C2: a BACK turn with more than one history entry pops exactly one entry
\* and returns the new top of the history as the turn's URL.
C2_BackPopsOne ==
    (CommandTurn /\ turn.matched = BACK /\ Len(turn.h0) > 1)
        => /\ link_history = SubSeq(turn.h0, 1, Len(turn.h0) - 1)
           /\ turn.url = link_history[Len(link_history)]

\* C3: a BACK turn with exactly one history entry leaves history, bookmarks
\* and current_title unchanged and answers "already on the first page".
C3_BackOnFirstPage ==
    (CommandTurn /\ turn.matched = BACK /\ Len(turn.h0) = 1)
        => /\ StateUnchanged
           /\ turn.summary = MSG_FIRST_PAGE

C3_Witness == CommandTurn /\ turn.matched = BACK /\ Len(turn.h0) = 1 /\ turn.nav # <<>>

\* C4: a turn in which an error is raised returns the fixed apology with a
\* null URL and leaves history, bookmarks and current_title as they were.
C4_ErrorLeavesState ==
    (IsTurn /\ turn.error)
        => /\ turn.summary = MSG_APOLOGY
           /\ turn.url = None
           /\ StateUnchanged

\* C5: a BOOKMARK turn taken while current_title is not set returns a failure
\* response and leaves the bookmarks unchanged.
C5_BookmarkNeedsTitle ==
    (CommandTurn /\ turn.matched = BOOKMARK /\ turn.t0 = None)
        => /\ bookmarks = turn.b0
           /\ turn.summary # MSG_BOOKMARK_SAVED

\* C6: once summarize(U) has returned a pair, a later summarize(U) returns
\* the identical pair without loading the page or calling the service.
C6_SummaryCached ==
    [][(turn.op = "quick_summarize" /\ turn'.op = "quick_summarize"
            /\ turn'.input = turn.input)
        => /\ turn'.summary = turn.summary
           /\ turn'.nav = turn.nav
           /\ turn'.renders = 0
           /\ turn'.sites = {}]_vars

Resolved == turn.op = "resolved"

ClassifiedNavigation ==
    /\ keyword_intent(turn.input) = None
    /\ turn.gcls.ok
    /\ intent_text(turn.gcls.text) = NAVIGATION

C8_KeywordsNeedNoService ==
    (CommandTurn /\ turn.all_raised)
        => /\ HasExitWord(turn.input)
                => /\ turn.matched = EXIT
                   /\ turn.summary = MSG_FAREWELL
                   /\ ~turn.error
           /\ (HasBackWord(turn.input) /\ ~HasExitWord(turn.input))
                => /\ turn.matched = BACK
                   /\ ~turn.error
                   /\ turn.summary # MSG_APOLOGY
                   /\ IF Len(turn.h0) > 1
                      THEN turn.url = turn.h0[Len(turn.h0) - 1]
                      ELSE turn.summary = MSG_FIRST_PAGE

C8_Witness ==
    /\ CommandTurn /\ turn.all_raised /\ "quick_summarize" \in turn.sites
    /\ HasBackWord(turn.input) /\ ~HasExitWord(turn.input)
    /\ Len(turn.h0) > 1

\* C9: a non-URL utterance received while the history is empty gets the
\* "no page loaded yet" message and nothing else happens: the resolver is
\* not consulted and the state is unchanged.
C9_NoPageNoAction ==
    (CommandTurn /\ turn.h0 = <<>>)
        => /\ turn.summary = MSG_NO_PAGE
           /\ ~turn.consulted
           /\ StateUnchanged

FreshSession == turn.h0 = <<>> /\ turn.b0 = <<>> /\ turn.t0 = None

\* C10: in a fresh session a first turn "go back" answers "already on the
\* first page", raises nothing and leaves the history empty.
C10_GoBackInFreshSession ==
    (IsTurn /\ FreshSession /\ turn.input = SAY_GO_BACK)
        => /\ turn.summary = MSG_FIRST_PAGE
           /\ ~turn.error
           /\ link_history = <<>>

C10_Witness == IsTurn /\ FreshSession /\ turn.input = SAY_GO_BACK /\ turn.matched = BACK

SwitchTurn == CommandTurn /\ turn.matched = SWITCH_WEBSITE /\ turn.switch.called

\* C11: a SWITCH_WEBSITE turn for which find_website succeeds leaves the
\* history equal to the history before followed by the resolved URL; one for
\* which find_website fails answers with a failure message and leaves the
\* history unchanged.
C11_SwitchPushesOnce ==
    SwitchTurn
        => IF ~turn.switch.still /\ Truthy(turn.switch.url)
           THEN link_history = Append(turn.h0, turn.switch.url)
           ELSE /\ link_history = turn.h0
                /\ Contains(MSG_WEBSITE_NOT_FOUND, turn.summary)

GoToBookmarkTurn == CommandTurn /\ turn.matched = GO_TO_BOOKMARK /\ turn.gtitle.ok

\* C12: a GO_TO_BOOKMARK turn whose title call names a key of the bookmarks
\* appends bookmarks[title] to the history and returns it as the turn's URL;
\* when the named title is no key, the turn answers "not found" and the
\* history is unchanged.
C12_GoToBookmarkPushes ==
    GoToBookmarkTurn
        => IF HasKey(turn.b0, turn.gtitle.text)
           THEN /\ link_history = Append(turn.h0, DictGet(turn.b0, turn.gtitle.text))
                /\ turn.url = DictGet(turn.b0, turn.gtitle.text)
           ELSE /\ link_history = turn.h0
                /\ Contains(MSG_BOOKMARK_NOT_FOUND, turn.summary)

\* "Add navigation options" as written for a dict summary: the text the
\* label step would append for the options in hand
SECTIONS_HEAD ==
    <<"\n","\n","S","o","m","e"," ","s","e","c","t","i","o","n","s",":"," ">>
\* ' \u2022 ': the bullet is one character, written here by its code point
BULLET_SEP ==
    <<" ","<U+2022>"," ">>
TERMINAL_PHRASE ==
    <<"p","a","g","e">>

MaxSections == 5

sections_text(current_nav_options) ==
    LET keys == DictKeys(current_nav_options)
        sections == SubSeq(keys, 1, IF Len(keys) < MaxSections THEN Len(keys) ELSE MaxSections)
    IN  SECTIONS_HEAD \o Join(BULLET_SEP, sections)
            \o (IF Len(current_nav_options) > MaxSections THEN BULLET_SEP ELSE <<>>)

\* C13: a turn that ends with navigation options in hand and a response text
\* not ending in the terminal phrase returns a text that ends with the list
\* of at most 5 section labels, followed by the continuation marker exactly
\* when there are more than 5.
C13_ResponseListsSections ==
    (IsTurn /\ turn.nav # <<>> /\ ~EndsWith(turn.summary, TERMINAL_PHRASE))
        => EndsWith(turn.summary, sections_text(turn.nav))

\* C14: an EXIT turn returns the farewell and leaves history, bookmarks and
\* current_title as they were.
C14_ExitChangesNothing ==
    (CommandTurn /\ turn.matched = EXIT)
        => /\ turn.summary = MSG_FAREWELL
           /\ ~turn.error
           /\ StateUnchanged

C14_Witness ==
    /\ CommandTurn /\ turn.matched = EXIT
    /\ turn.h0 # <<>> /\ turn.b0 # <<>> /\ turn.t0 # None /\ turn.nav # <<>>

FindTurn == turn.op = "find_website"

\* the URL call of find_website answered with a text that is no URL
FindAnswerNotUrl == FindTurn /\ turn.gurl.ok /\ ~is_url(Strip(turn.gurl.text))

\* C15 as stated: when the URL call of find_website answers "none" or any
\* text that is not a well-formed URL, find_website returns on_startup true
\* and a null URL, and leaves history, bookmarks and current_title alone.
C15_NotUrlGivesNull ==
    FindAnswerNotUrl
        => /\ turn.still
           /\ turn.url = None
           /\ StateUnchanged

\* C15, with the empty string for the URL: in that case find_website returns
\* on_startup true, the message "Could not find a valid website" and the
\* empty string as URL (not None), and leaves history, bookmarks and
\* current_title alone.
C15_NotUrlGivesEmpty ==
    FindAnswerNotUrl
        => /\ turn.still
           /\ turn.url = <<>>
           /\ turn.summary = MSG_NO_VALID_SITE
           /\ StateUnchanged

C15_Witness ==
    /\ FindAnswerNotUrl /\ turn.gurl.text = TEXT_BARE_HOST
    /\ turn.h0 # <<>> /\ turn.still

\* the URL call answered with a well-formed URL and the generation call of
\* quick_summarize for it raised
FindSummarizeFailed ==
    /\ FindTurn /\ turn.gurl.ok /\ is_url(Strip(turn.gurl.text))
    /\ "quick_summarize" \in turn.raised

\* C16: when the URL call of find_website answers a well-formed URL and
\* summarizing that URL fails, find_website returns on_startup true and the
\* candidate URL.
C16_FailedSummaryKeepsUrl ==
    FindSummarizeFailed
        => /\ turn.still
           /\ turn.url = Strip(turn.gurl.text)

---------------------------------------------------------------------------
\* quick_extract against the renderer: the browser page keeps the document
\* it shows from one call to the next, and every wait on it can time out

\* about:blank, the document of a new page
DocBlank == [title |-> <<>>, links |-> <<>>, headings |-> <<>>, text |-> <<>>]

\* the documents the sites serve
SiteDoc ==
    [u \in Urls |->
        IF u = URL_A
        THEN [title |-> TEXT_DOCS, links |-> <<<<LABEL_ABOUT, URL_ABOUT>>>>,
              headings |-> <<TEXT_DOCS>>, text |-> TEXT_BODY]
        ELSE [title |-> LABEL_ABOUT, links |-> <<>>, headings |-> <<LABEL_ABOUT>>,
              text |-> <<>>]]

\* page.goto under _safe_extract: completed, cut off at PAGE_LOAD_TIMEOUT,
\* or failed; the result is dropped in every case
GotoOutcomes == {"loaded", "timeout", "error"}

\* _safe_extract(coro, timeout, default)
safe_extract(completed, value, default) == IF completed THEN value ELSE default

\* the document the page shows after goto(url): a navigation cut off before
\* it committed leaves the document that was there
goto_page(shown, url, outcome, committed) ==
    IF outcome = "loaded" \/ (outcome = "timeout" /\ committed) THEN SiteDoc[url] ELSE shown

\* what the extraction steps of quick_extract read from the document shown;
\* r.query_raises: page.query_selector, which nothing guards, raises
page_view(doc, r) ==
    [broken |-> r.query_raises,
     title |-> safe_extract(r.title_done, doc.title, TITLE_UNKNOWN),
     main_links |-> safe_extract(r.links_done, doc.links, <<>>),
     main_headings |-> safe_extract(r.headings_done, doc.headings, <<>>),
     quick_summary |-> safe_extract(r.content_done, doc.text, <<>>)]

\* every extraction step completes
AllDone ==
    [query_raises |-> FALSE, title_done |-> TRUE, links_done |-> TRUE,
     headings_done |-> TRUE, content_done |-> TRUE]

InitExtract ==
    /\ link_history = <<>>
    /\ bookmarks = <<>>
    /\ current_title = None
    /\ turn = [op |-> "start", url |-> None, goto |-> "none", shown |-> DocBlank,
               before |-> DocBlank,
               digest |-> quick_extract(None, [PagePlain EXCEPT !.broken = TRUE]),
               summary |-> <<>>, nav |-> <<>>, r |-> AllDone]

\* summarizer.quick_summarize(url) on the page as the last call left it
QuickExtract ==
    /\ \E url \in Urls, outcome \in GotoOutcomes, committed \in BOOLEAN,
          query_raises, title_done, links_done, headings_done, content_done \in BOOLEAN,
          g \in SummaryOutcomes :
        /\ committed => outcome = "timeout"
        /\ \E doc \in {goto_page(turn.shown, url, outcome, committed)} :
           \E r \in {[query_raises |-> query_raises,
                       title_done |-> title_done, links_done |-> links_done,
                       headings_done |-> headings_done,
                       content_done |-> content_done]} :
           \E page \in {page_view(doc, r)} :
           \E s \in {quick_summarize(url, page, g)} :
                turn' = [op |-> "quick_extract", url |-> url, goto |-> outcome,
                         shown |-> doc, before |-> turn.shown,
                         digest |-> quick_extract(url, page),
                         summary |-> s.summary, nav |-> s.links, r |-> r]
    /\ UNCHANGED <<link_history, bookmarks, current_title>>

SpecExtract == InitExtract /\ [][QuickExtract]_vars

GotoTimedOut == turn.op = "quick_extract" /\ turn.goto = "timeout"

\* C17: when the navigation to the requested URL times out, the digest
\* quick_summarize uses has the title "Unknown Title" or "Could not load
\* page", no navigation links and no headings, whatever the page showed
\* before.
C17_TimeoutGivesEmptyDigest ==
    GotoTimedOut
        => /\ turn.digest.title \in {TITLE_UNKNOWN, TITLE_NOT_LOADED}
           /\ turn.digest.main_links = <<>>
           /\ turn.digest.main_headings = <<>>
           /\ turn.nav = <<>>

\* the utterance resolved to a label of the options in hand
NavigationTurn ==
    /\ CommandTurn /\ turn.matched \notin IntentNames \cup {None}
    /\ HasKey(turn.options, turn.matched)

\* C18: a turn whose utterance resolves to a navigation label L appends
\* navLinks[L] to the history (one new entry) and returns it as the turn's
\* URL, which is then the top of the history.
C18_NavigationPushesTarget ==
    NavigationTurn
        => /\ link_history = Append(turn.h0, DictGet(turn.options, turn.matched))
           /\ turn.url = DictGet(turn.options, turn.matched)
           /\ turn.url = link_history[Len(link_history)]

\* C19: once the history is non-empty it stays non-empty, whatever the
\* operation: no step removes an entry of link_history.
C19_HistoryNeverEmptied ==
    [][link_history # <<>> => link_history' # <<>>]_vars

C19_Witness ==
    /\ CommandTurn /\ turn.matched = BACK /\ Len(turn.h0) = 1 /\ ~turn.error
    /\ link_history # <<>>

FindSucceeded == FindTurn /\ ~turn.still

\* C20: after find_website returns with on_startup false, current_title is
\* the title its title call derived, and a BOOKMARK turn that follows at once
\* answers "Bookmark saved!" and stores under current_title the URL on top of
\* the history, which is the URL the URL call of find_website resolved.
C20_BookmarkAfterFind ==
    [][FindSucceeded =>
        /\ current_title = Strip(turn.gtitle.text)
        /\ (turn'.op = "agent_response" /\ turn'.matched = BOOKMARK)
            => /\ turn'.summary = MSG_BOOKMARK_SAVED
               /\ ~turn'.error
               /\ bookmarks' = DictPut(bookmarks, current_title,
                                       link_history[Len(link_history)])
               /\ link_history[Len(link_history)] = Strip(turn.gurl.text)]_vars

C20_Witness ==
    /\ CommandTurn /\ turn.matched = BOOKMARK /\ turn.summary = MSG_BOOKMARK_SAVED
    /\ turn.t0 = TITLE_ACME /\ turn.b0 = <<>>
    /\ bookmarks = <<<<TITLE_ACME, URL_SITE>>>>
    /\ turn.h0 = <<URL_SITE>>

InfoTurn == CommandTurn /\ turn.matched = INFO_REQUEST

---------------------------------------------------------------------------
\* One turn of agent_response from a session earlier turns have built, on
\* pages and classifier answers of more kinds

LABEL_ORDER_SUMMARY ==
    <<"O","r","d","e","r"," ","s","u","m","m","a","r","y">>
SAY_WHAT ==
    <<"w","h","a","t"," ","i","s"," ","t","h","i","s">>
TEXT_MAYBE ==
    <<"M","a","y","b","e">>

\* a page whose navigation has a label with "summary" in it
PageSummaryNav ==
    [PageNav EXCEPT !.main_links = <<<<LABEL_ORDER_SUMMARY, URL_ABOUT>>>>]

\* sessions as turns leave them: nothing loaded, one or two pages visited,
\* a site found by find_website and bookmarked
TurnSessions ==
    {[h |-> <<>>, b |-> <<>>, t |-> None],
     [h |-> <<URL_A>>, b |-> <<>>, t |-> None],
     [h |-> <<URL_A, URL_ABOUT>>, b |-> <<>>, t |-> None],
     [h |-> <<URL_SITE>>, b |-> <<<<TITLE_ACME, URL_SITE>>>>, t |-> TITLE_ACME]}

TurnUtterances == {SAY_HELLO, SAY_WHAT, SAY_GO_BACK, SAY_STOP_BACK, URL_A}

TurnClassifyOutcomes ==
    {GenRaise(ERR_503), GenOk(TEXT_NONE_UPPER), GenOk(TEXT_NAVIGATION), GenOk(TEXT_MAYBE),
     GenOk(<<>>), GenOk(EXIT), GenOk(BOOKMARK), GenOk(LIST_BOOKMARKS)}

\* the outcomes a turn of these can meet
ClassifiedEnvs ==
    {[page |-> page, g |-> g, gcls |-> gcls, gnav |-> gnav, gtitle |-> Unused,
      page2 |-> page2, g2 |-> g2, info |-> NoInfo, se |-> NoSwitch] :
        page \in Pages \cup {PageSummaryNav}, g \in SummaryOutcomes,
        gcls \in TurnClassifyOutcomes, gnav \in {GenOk(TEXT_ABOUT_QUOTED), GenOk(TEXT_NONE)},
        page2 \in Pages, g2 \in SummaryOutcomes}

InitTurn ==
    /\ \E s \in TurnSessions :
        /\ link_history = s.h
        /\ bookmarks = s.b
        /\ current_title = s.t
    /\ turn = Idle @@ [gcls |-> Unused, text |-> <<>>]

\* agent_response(summarizer, user_input) with the classifier's answer and
\* the response text as it reaches the label step kept
Turn ==
    /\ turn.op = "idle"
    /\ \E user_input \in TurnUtterances, e \in ClassifiedEnvs :
        \E r \in {agent_response(link_history, bookmarks, current_title, user_input, e)
                    @@ [still |-> FALSE, gurl |-> Unused, gtitle |-> Unused]} :
            /\ link_history' = r.h
            /\ bookmarks' = r.b
            /\ current_title' = r.t
            /\ turn' = TurnRecord("agent_response", user_input, link_history, bookmarks,
                                  current_title, r)
                       @@ [gcls |-> IF r.consulted /\ "classify" \in
                                        {r.calls[i].site : i \in 1..Len(r.calls)}
                                    THEN e.gcls ELSE Unused,
                           text |-> try_block(link_history, bookmarks, current_title,
                                              user_input, e).summary]

SpecTurn == InitTurn /\ [][Turn]_vars

\* the seven answers the classification prompt asks for
ClassNames ==
    {INFO_REQUEST, NAVIGATION, BOOKMARK, LIST_BOOKMARKS, GO_TO_BOOKMARK, SWITCH_WEBSITE,
     TEXT_NONE_UPPER}

\* no keyword matched, and the classification call raised or answered
\* something that is not exactly one of the seven names
ClassificationUnusable ==
    /\ CommandTurn /\ keyword_intent(turn.input) = None /\ "classify" \in turn.sites
    /\ ~turn.gcls.ok \/ turn.gcls.text \notin ClassNames

HelpText(options) == MSG_HELP_HEAD \o Join(COMMA_SEP, DictKeys(options)) \o MSG_HELP_TAIL

\* C22: for an utterance with no exit or back keyword, if the classification
\* call raises or answers a text that is not exactly one of the seven names,
\* the resolver returns None, nothing propagates, and the turn returns the
\* help message with history, bookmarks and current_title unchanged.
C22_UnusableClassificationGivesHelp ==
    ClassificationUnusable
        => /\ turn.matched = None
           /\ ~turn.error
           /\ turn.summary = HelpText(turn.options)
           /\ StateUnchanged

---------------------------------------------------------------------------
\* get_specific_info as a function of the page content and of what the
\* generation service answers to its two calls

ERR_TIMEOUT ==
    <<"t","i","m","e","d"," ","o","u","t">>

InfoCallOutcomes == InfoOutcomes \cup {GenRaise(ERR_TIMEOUT), GenOk(TEXT_DOCS)}

InfoContents == Contents \cup {[broken |-> FALSE, text |-> TEXT_DOCS]}

InitInfo ==
    /\ link_history = <<>>
    /\ bookmarks = <<>>
    /\ current_title = None
    /\ turn = [op |-> "start", url |-> None, content |-> [broken |-> TRUE, text |-> <<>>],
               g1 |-> Unused, g2 |-> Unused, text |-> <<>>, sites |-> {}]

\* summarizer.get_specific_info(url, query), one call after another
GetSpecificInfo ==
    /\ \E url \in Urls, content \in InfoContents, g1, g2 \in InfoCallOutcomes :
        \E info \in {get_specific_info(url, content, g1, g2)} :
            turn' = [op |-> "get_specific_info", url |-> url, content |-> content,
                     g1 |-> g1, g2 |-> g2, text |-> info.text,
                     sites |-> {info.calls[i].site : i \in 1..Len(info.calls)}]
    /\ UNCHANGED <<link_history, bookmarks, current_title>>

SpecInfo == InitInfo /\ [][GetSpecificInfo]_vars

\* the page was read, and no content was found or a generation call failed
InfoFailed(call) ==
    /\ call.op = "get_specific_info" /\ ~call.content.broken
    /\ \/ call.content.text = <<>>
       \/ ~call.g1.ok
       \/ call.g1.ok /\ ~call.g2.ok

\* the text the service raised with, when a call that was made raised
RaisedTexts(call) ==
    (IF "extract" \in call.sites /\ ~call.g1.ok THEN {call.g1.text} ELSE {})
    \cup (IF "cleanup" \in call.sites /\ ~call.g2.ok THEN {call.g2.text} ELSE {})

\* C23: whenever no page content is found or one of the two generation
\* calls fails, get_specific_info returns one and the same apology, with
\* nothing of the exception in it.
C23_InfoFailureIsOneApology ==
    [][/\ InfoFailed(turn) => \A x \in RaisedTexts(turn) : ~Contains(x, turn.text)
       /\ (InfoFailed(turn) /\ InfoFailed(turn')) => turn'.text = turn.text]_vars

\* find_website returned on_startup true, or a SWITCH_WEBSITE turn did not
\* get a site
SiteFailure ==
    \/ FindTurn /\ turn.still
    \/ /\ CommandTurn /\ turn.matched = SWITCH_WEBSITE
       /\ ~(turn.switch.called /\ ~turn.switch.still /\ Truthy(turn.switch.url))

\* C24: a failure of find_website or of a SWITCH_WEBSITE turn is reported
\* in fixed words: the text the service raised with (here always "503") is
\* not in the returned summary.
C24_SiteFailureHidesError ==
    (SiteFailure /\ turn.raised # {}) => ~Contains(ERR_503, turn.summary)

---------------------------------------------------------------------------
\* The navigation links of quick_extract, as a function of the anchors the
\* page has under each of the four navigation selectors

MAX_LINKS == 10

MaxLabelLength == 50

NavSelectors == <<"nav a[href]", "header a[href]", "#nav-main a[href]", ".nav-links a[href]">>

\* urljoin(url, href) for an href that is absolute or starts at the root
urljoin(url, href) ==
    IF HasScheme(href) THEN href
    ELSE UrlScheme(url) \o <<":", "/", "/">> \o UrlNetloc(url) \o href

\* extract_link(element); element.slow: reading it exceeds ELEMENT_TIMEOUT
extract_link(element) ==
    IF element.text # <<>> /\ element.href # <<>>
            /\ Len(Strip(element.text)) < MaxLabelLength
    THEN <<Strip(element.text), element.href>>
    ELSE None

\* _extract_elements(selector, extract_link): the truthy results, in order
extract_elements(elements) ==
    SelectSeq([i \in 1..Len(elements) |->
                    IF elements[i].slow THEN None ELSE extract_link(elements[i])],
              LAMBDA result : result # None)

\* d[k] = v for every <<k, v>> of pairs, in order: a key keeps the position of
\* its first assignment and the value of its last
DictUpdate(d, pairs) ==
    LET all == d \o pairs
        First(i) == \A k \in 1..(i - 1) : all[k][1] # all[i][1]
        LastOf(key) == CHOOSE i \in 1..Len(all) :
                            /\ all[i][1] = key
                            /\ \A k \in (i + 1)..Len(all) : all[k][1] # key
        keys == SelectSeq([i \in 1..Len(all) |-> i], First)
    IN  [j \in 1..Len(keys) |-> <<all[keys[j]][1], all[LastOf(all[keys[j]][1])][2]>>]

\* for text, href in links[:MAX_LINKS]: main_links[text] = urljoin(url, href)
add_links(main_links, links, url) ==
    DictUpdate(main_links,
               [i \in 1..Len(links) |-> <<links[i][1], urljoin(url, links[i][2])>>])

\* the loop over nav_selectors; anchors[i] are the elements NavSelectors[i] matches
RECURSIVE extract_nav_links(_, _, _, _)
extract_nav_links(main_links, url, anchors, i) ==
    IF i > Len(NavSelectors) THEN main_links
    ELSE LET links == extract_elements(anchors[i])
         IN  extract_nav_links(
                add_links(main_links,
                          SelectSeq(SubSeq(links, 1, IF Len(links) < MAX_LINKS THEN Len(links)
                                                     ELSE MAX_LINKS),
                                    LAMBDA link : link[1] # <<>> /\ link[2] # <<>>),
                          url),
                url, anchors, i + 1)

\* the most anchors one selector matches in the pages followed
MaxAnchors == 11

\* n anchors with the labels <prefix>a, <prefix>b, ...
Labelled(prefix, n) ==
    [i \in 1..n |-> [text |-> <<prefix, LowerChars[i]>>, href |-> <<"/", LowerChars[i]>>,
                     slow |-> FALSE]]

TEXT_LOCALE_EN ==
    <<" ","e","n","\n">>
TEXT_LOCALE_FR ==
    <<"f","r">>

\* a language switch, a blank label, a label of 50 characters, an anchor
\* without href, one without text, one too slow to read, and a plain one
OddAnchors ==
    <<[text |-> TEXT_LOCALE_EN, href |-> <<"/", "e", "n">>, slow |-> FALSE],
      [text |-> TEXT_LOCALE_FR, href |-> URL_ABOUT, slow |-> FALSE],
      [text |-> <<" ", " ">>, href |-> <<"/", "b">>, slow |-> FALSE],
      [text |-> [i \in 1..MaxLabelLength |-> "x"], href |-> <<"/", "x">>, slow |-> FALSE],
      [text |-> TEXT_DOCS, href |-> <<>>, slow |-> FALSE],
      [text |-> <<>>, href |-> <<"/", "y">>, slow |-> FALSE],
      [text |-> TEXT_PRICING, href |-> <<"/", "p">>, slow |-> TRUE],
      [text |-> LABEL_ABOUT, href |-> URL_ABOUT, slow |-> FALSE]>>

AnchorLists == {<<>>, Labelled("A", MaxAnchors), Labelled("B", MaxAnchors - 5), OddAnchors}

InitLinks ==
    /\ link_history = <<>>
    /\ bookmarks = <<>>
    /\ current_title = None
    /\ \E url \in Urls, anchors \in [1..Len(NavSelectors) -> AnchorLists] :
        turn = [op |-> "page", url |-> url, anchors |-> anchors, main_links |-> <<>>]

\* the navigation-link part of quick_extract(url)
ExtractLinks ==
    /\ turn.op = "page"
    /\ turn' = [turn EXCEPT !.op = "extracted",
                            !.main_links = extract_nav_links(<<>>, turn.url, turn.anchors, 1)]
    /\ UNCHANGED <<link_history, bookmarks, current_title>>

SpecLinks == InitLinks /\ [][ExtractLinks]_vars

LocaleCodes == {<<"e", "n">>, <<"f", "r">>}

\* C25: the navigation links of a digest are at most 10, every label is
\* non-empty and shorter than 50 characters, and no label is a locale code.
C25_NavLinksBounded ==
    turn.op = "extracted"
        => /\ Len(turn.main_links) <= MAX_LINKS
           /\ \A i \in 1..Len(turn.main_links) :
                /\ turn.main_links[i][1] # <<>>
                /\ Len(turn.main_links[i][1]) < MaxLabelLength
                /\ Lower(turn.main_links[i][1]) \notin LocaleCodes

Extracted == turn.op = "quick_extract"

\* C26: a timeout or DOM error in one extraction step (title, navigation
\* links, headings, main content) gives that field its default value, and
\* the digest still carries the values the other steps obtained.
C26_FailedStepKeepsTheOthers ==
    Extracted =>
        /\ turn.digest.title = IF turn.r.title_done THEN turn.shown.title ELSE TITLE_UNKNOWN
        /\ turn.digest.main_links = IF turn.r.links_done THEN turn.shown.links ELSE <<>>
        /\ turn.digest.main_headings
                = IF turn.r.headings_done THEN turn.shown.headings ELSE <<>>
        /\ turn.digest.quick_summary
                = IF turn.r.content_done /\ ~turn.r.query_raises
                  THEN turn.shown.text ELSE <<>>

\* C27: an utterance with both an exit word and a back word resolves to
\* EXIT, and an utterance with an exit word or a back word is resolved
\* without a classification call to the generation service.
C27_ExitBeforeBackWithoutCalls ==
    Resolved =>
        /\ (HasExitWord(turn.input) /\ HasBackWord(turn.input)) => turn.matched = EXIT
        /\ (HasExitWord(turn.input) \/ HasBackWord(turn.input)) => turn.sites = {}

C27_Witness ==
    /\ Resolved
    /\ HasExitWord(turn.input) /\ HasBackWord(turn.input)
    /\ turn.matched = EXIT
    /\ turn.gcls.ok /\ IntentText(turn.gcls.text) = NAVIGATION

IsPrefix(s, t) == Len(s) <= Len(t) /\ SubSeq(t, 1, Len(s)) = s

\* C28: link_history is append-only: every step, whatever the turn (BACK,
\* GO_TO_BOOKMARK, EXIT, a turn ending in the apology), leaves the history
\* it found as a prefix of the history it leaves; a BACK turn on a history
\* of two or more entries leaves it as it was and returns its
\* second-to-last entry, so that repeated BACK turns return the same URL.
C28_HistoryAppendOnly ==
    [][/\ IsPrefix(link_history, link_history')
       /\ (turn'.op = "agent_response" /\ turn'.matched = BACK /\ ~turn'.error
                /\ Len(link_history) > 1)
            => /\ link_history' = link_history
               /\ turn'.url = link_history[Len(link_history) - 1]]_vars

C28_Witness ==
    /\ CommandTurn /\ turn.matched = BACK /\ ~turn.error
    /\ Len(turn.h0) > 1
    /\ link_history = turn.h0
    /\ turn.url = turn.h0[Len(turn.h0) - 1]
    /\ turn.url # turn.h0[Len(turn.h0)]

\* the turn reached the label step with navigation links in hand and
\* "summary" in its response text
LabelStepMet == IsTurn /\ turn.nav # <<>> /\ Contains(SUMMARY_KEY, turn.text)

C29_WitnessUrl ==
    /\ LabelStepMet /\ UrlTurn
    /\ turn.url = None
    /\ link_history = Append(turn.h0, turn.input)

---------------------------------------------------------------------------
\* find_website called by the caller, and the turn the caller then takes
\* with the URL it returned

\* sessions as turns leave them: up to two pages visited by URL, or a site
\* found by find_website, then bookmarked or left for another page
FindSessions ==
    {[h |-> h, b |-> <<>>, t |-> None] :
        h \in {<<>>} \cup {<<u>> : u \in Urls} \cup {<<u, v>> : u, v \in Urls}}
    \cup {[h |-> <<URL_SITE>>, b |-> <<<<TITLE_ACME, URL_SITE>>>>, t |-> TITLE_ACME],
          [h |-> <<URL_SITE, URL_A>>, b |-> <<>>, t |-> TITLE_ACME]}

InitFind ==
    /\ \E s \in FindSessions :
        /\ link_history = s.h
        /\ bookmarks = s.b
        /\ current_title = s.t
    /\ turn = Idle

\* find_website(prompt, summarizer), called directly
FindSite ==
    /\ turn.op = "idle"
    /\ \E prompt \in Prompts, fe \in FindEnvs :
        \E r \in {find_website(prompt, link_history, bookmarks, current_title, fe)
                    @@ [matched |-> None, nav |-> <<>>, consulted |-> FALSE,
                        error |-> FALSE, switch |-> NotSwitched, gurl |-> fe.gurl,
                        gtitle |-> fe.gtitle, options |-> <<>>]} :
            /\ link_history' = r.h
            /\ bookmarks' = r.b
            /\ current_title' = r.t
            /\ turn' = TurnRecord("find_website", prompt, link_history, bookmarks,
                                  current_title, r)

\* agent_response(summarizer, new_url) with the URL find_website returned
VisitFound ==
    /\ turn.op = "find_website"
    /\ Truthy(turn.url)
    /\ \E e \in TurnEnvs(link_history, bookmarks, current_title, turn.url) :
        \E r \in {agent_response(link_history, bookmarks, current_title, turn.url, e)
                    @@ [still |-> FALSE, gurl |-> Unused, gtitle |-> Unused]} :
            /\ link_history' = r.h
            /\ bookmarks' = r.b
            /\ current_title' = r.t
            /\ turn' = TurnRecord("agent_response", turn.url, link_history, bookmarks,
                                  current_title, r)

NextFind == FindSite \/ VisitFound

SpecFind == InitFind /\ [][NextFind]_vars

\* C30: find_website, called directly, appends the URL its URL call
\* resolved exactly once when that text is a well-formed URL and appends
\* nothing otherwise; a turn agent_response(U) with the URL U it returned
\* leaves U in the last two places of the history.
C30_FindPushesOnce ==
    [][/\ turn'.op = "find_website"
            => link_history'
                = IF turn'.gurl.ok /\ is_url(Strip(turn'.gurl.text))
                  THEN Append(link_history, Strip(turn'.gurl.text))
                  ELSE link_history
       /\ (FindTurn /\ turn'.op = "agent_response" /\ turn'.input = turn.url)
            => /\ link_history = Append(turn.h0, turn.url)
               /\ link_history' = Append(link_history, turn.url)]_vars

C30_Witness ==
    /\ UrlTurn
    /\ Len(link_history) = Len(turn.h0) + 1
    /\ Len(turn.h0) >= 2
    /\ turn.h0[Len(turn.h0)] = turn.input
    /\ link_history[Len(link_history)] = turn.input
    /\ turn.h0[Len(turn.h0) - 1] # turn.input

BookmarkTurn == CommandTurn /\ turn.matched = BOOKMARK /\ turn.h0 # <<>>

\* C31: current_title is written only by find_website (called directly or
\* by a SWITCH_WEBSITE turn); URL turns, label navigation, BACK and
\* GO_TO_BOOKMARK leave it as it was. A BOOKMARK turn stores the top of the
\* history under current_title, so a second BOOKMARK turn on another page
\* with no find_website in between overwrites the entry of the first.
C31_TitleOnlyFromFindWebsite ==
    /\ (turn.op # "idle" /\ current_title # turn.t0) => (FindTurn \/ SwitchTurn)
    /\ BookmarkTurn
        => /\ bookmarks = DictPut(turn.b0, turn.t0, turn.h0[Len(turn.h0)])
           /\ Len(bookmarks) = IF HasKey(turn.b0, turn.t0) THEN Len(turn.b0)
                               ELSE Len(turn.b0) + 1

C31_Witness ==
    /\ BookmarkTurn
    /\ turn.t0 = TITLE_ACME
    /\ turn.b0 = <<<<TITLE_ACME, URL_SITE>>>>
    /\ turn.h0[Len(turn.h0)] = URL_A
    /\ bookmarks = <<<<TITLE_ACME, URL_A>>>>

---------------------------------------------------------------------------
\* turns on a page whose navigation labels are the reserved intent names

URL_RESERVED ==
    <<"h","t","t","p",":","/","/","a",".","i","o","/","r">>

ReservedLabels ==
    <<EXIT, BACK, BOOKMARK, LIST_BOOKMARKS, GO_TO_BOOKMARK, SWITCH_WEBSITE, INFO_REQUEST>>

PageReserved ==
    [PageNav EXCEPT !.main_links =
        [i \in 1..Len(ReservedLabels) |-> <<ReservedLabels[i], URL_RESERVED>>]
            \o <<<<LABEL_ABOUT, URL_ABOUT>>>>]

ReservedEnv(page, gcls, gnav, gtitle, info, se) ==
    [page |-> page, g |-> GenOk(TEXT_DOCS), gcls |-> gcls, gnav |-> gnav,
     gtitle |-> gtitle, page2 |-> PagePlain, g2 |-> GenOk(TEXT_DOCS),
     info |-> info, se |-> se]

\* the outcomes a turn on such a page can meet: the navigation call answers
\* with a label of the page, with "none", or raises
ReservedEnvs ==
    {ReservedEnv(page, gcls, gnav, Unused, NoInfo, NoSwitch) :
        page \in {PageReserved, PageNav},
        gcls \in {GenOk(TEXT_NAVIGATION), GenOk(TEXT_NONE_UPPER)},
        gnav \in {GenOk(ReservedLabels[i]) : i \in 1..Len(ReservedLabels)}
                 \cup {GenOk(TEXT_ABOUT_QUOTED), GenOk(TEXT_NONE), GenRaise(ERR_503)}}
    \cup {ReservedEnv(PageReserved, GenOk(TEXT_NAVIGATION), GenOk(GO_TO_BOOKMARK),
                      gtitle, NoInfo, NoSwitch) : gtitle \in BookmarkTitleOutcomes}
    \cup {ReservedEnv(PageReserved, GenOk(TEXT_NAVIGATION), GenOk(INFO_REQUEST),
                      Unused, info, NoSwitch) : info \in InfoEnvs}
    \cup {ReservedEnv(PageReserved, GenOk(TEXT_NAVIGATION), GenOk(SWITCH_WEBSITE),
                      Unused, NoInfo, se) : se \in SwitchEnvs}

InitReserved ==
    /\ \E s \in TurnSessions :
        /\ link_history = s.h
        /\ bookmarks = s.b
        /\ current_title = s.t
    /\ turn = Idle @@ [text |-> <<>>]

\* agent_response(summarizer, user_input) with the response text as it
\* reaches the label step kept
TurnReserved ==
    /\ turn.op = "idle"
    /\ \E user_input \in {SAY_HELLO, SAY_WHAT}, e \in ReservedEnvs :
        \E r \in {agent_response(link_history, bookmarks, current_title, user_input, e)
                    @@ [still |-> FALSE, gurl |-> Unused, gtitle |-> Unused]} :
            /\ link_history' = r.h
            /\ bookmarks' = r.b
            /\ current_title' = r.t
            /\ turn' = TurnRecord("agent_response", user_input, link_history, bookmarks,
                                  current_title, r)
                       @@ [text |-> try_block(link_history, bookmarks, current_title,
                                              user_input, e).summary]

SpecReserved == InitReserved /\ [][TurnReserved]_vars

\* the navigation call matched a label that is a reserved intent name
ReservedLabelMatched ==
    /\ CommandTurn /\ "navigation" \in turn.sites
    /\ turn.matched \in IntentNames
    /\ HasKey(turn.options, turn.matched)

\* C32: a page label equal to EXIT, BACK, BOOKMARK, LIST_BOOKMARKS,
\* GO_TO_BOOKMARK, SWITCH_WEBSITE or INFO_REQUEST that the navigation call
\* matched is returned as it is and dispatched as that intent, never as a
\* navigation to the URL of the label.
C32_ReservedLabelIsIntent ==
    ReservedLabelMatched
        => /\ link_history # Append(turn.h0, DictGet(turn.options, turn.matched))
           /\ turn.url # DictGet(turn.options, turn.matched)
           /\ turn.matched = EXIT => turn.text = MSG_FAREWELL /\ StateUnchanged
           /\ turn.matched = BACK
                => /\ link_history = turn.h0
                   /\ Len(turn.h0) = 1 => turn.text = MSG_FIRST_PAGE
                   /\ Len(turn.h0) > 1 => turn.url = turn.h0[Len(turn.h0) - 1]
           /\ turn.matched = BOOKMARK
                => /\ turn.text = MSG_BOOKMARK_SAVED
                   /\ bookmarks = DictPut(turn.b0, turn.t0, turn.h0[Len(turn.h0)])
           /\ turn.matched = LIST_BOOKMARKS
                => \/ turn.text = MSG_NO_BOOKMARKS
                   \/ Contains(MSG_BOOKMARKS_HEAD, turn.text)
           /\ turn.matched = GO_TO_BOOKMARK => "bookmark_title" \in turn.sites
           /\ turn.matched = SWITCH_WEBSITE => "website_name" \in turn.sites
           /\ turn.matched = INFO_REQUEST => Contains(MSG_INFO_HEAD, turn.text)

C32_Witness ==
    /\ ReservedLabelMatched
    /\ turn.matched = BOOKMARK
    /\ turn.summary = MSG_BOOKMARK_SAVED
    /\ DictGet(turn.options, turn.matched) = URL_RESERVED
    /\ link_history = turn.h0

\* C33: the keyword tests are case-insensitive substring tests over the
\* whole utterance: an utterance with "quit", "exit", "bye", "goodbye",
\* "stop" or "end" anywhere, inside a longer word too ("recommend"), resolves
\* to EXIT, and any other utterance with "back" or "previous" anywhere
\* ("feedback") resolves to BACK, whatever the service would classify.
C33_KeywordsAreSubstrings ==
    Resolved =>
        /\ (\E word \in ExitWords : Contains(word, Lower(turn.input)))
                => turn.matched = EXIT
        /\ (/\ ~\E word \in ExitWords : Contains(word, Lower(turn.input))
            /\ \E word \in BackWords : Contains(word, Lower(turn.input)))
                => turn.matched = BACK

C33_Witness ==
    /\ Resolved
    /\ turn.input = SAY_RECOMMEND
    /\ turn.matched = EXIT
    /\ turn.gcls.ok /\ IntentText(turn.gcls.text) = INFO_REQUEST

C33_WitnessBack ==
    /\ Resolved
    /\ turn.input = SAY_FEEDBACK
    /\ turn.matched = BACK
    /\ turn.gcls.ok /\ IntentText(turn.gcls.text) = NAVIGATION

---------------------------------------------------------------------------
\* BackEnd/main.py: websocket_endpoint, the /ws receive loop

\* the most messages one connection is followed for
MaxMessages == 3

\* what one try block has done: the JSON messages sent, in order, and
\* whether an exception is propagating out of it
WsDone(sent) == [sent |-> sent, exc |-> FALSE]

WsRaised(sent) == [sent |-> sent, exc |-> TRUE]

\* websocket.send_json(...): raises once the client is gone
send_json(tag, alive) == IF alive THEN WsDone(<<tag>>) ELSE WsRaised(<<>>)

\* an except clause that answers an exception of the try block r with one
\* message
ws_except_silent(r, tag, alive) == WsDone(r.sent)

ws_except(r, tag, alive) ==
    IF r.exc
    THEN [sent |-> r.sent \o send_json(tag, alive).sent, exc |-> send_json(tag, alive).exc]
    ELSE r

\* the reply to a recognised text: command is what process_command returned
command_reply(command, alive) ==
    IF command = "raises" THEN WsRaised(<<>>)
    ELSE IF command = "none" THEN send_json("text_only", alive)
    ELSE IF command = "PAGE_ANALYSIS" THEN send_json("EXECUTE_ACTION:analyze_page", alive)
    ELSE IF command = "EXECUTE_ACTION" THEN send_json("EXECUTE_ACTION", alive)
    ELSE send_json("command", alive)

\* type text_data: data['text'] is read once before the inner try; m.text
\* "not_str": data["text"].lower() raises
text_data(m, alive) ==
    IF m.text = "missing" THEN WsRaised(<<>>)
    ELSE ws_except(IF m.text = "not_str" THEN WsRaised(<<>>)
                   ELSE IF m.text = "blank" THEN send_json("null_command", alive)
                   ELSE command_reply(m.command, alive),
                   "text_processing_error", alive)

\* type audio_data: base64.b64decode(data["data"]) is outside the inner try;
\* m.data "not_audio": convert_webm_to_wav raises; m.text: what process_audio
\* does
audio_data(m, alive) ==
    IF m.data \in {"missing", "not_base64"} THEN WsRaised(<<>>)
    ELSE ws_except(IF m.data = "not_audio" THEN WsRaised(<<>>)
                   ELSE IF m.text = "raises" THEN WsRaised(<<>>)
                   ELSE IF m.text = "blank" THEN send_json("null_command", alive)
                   ELSE command_reply(m.command, alive),
                   "audio_processing_error", alive)

\* type page_content
page_content(m, alive) ==
    ws_except(IF m.analysis = "raises" THEN WsRaised(<<>>)
              ELSE send_json("PAGE_ANALYSIS_RESULT", alive),
              "PAGE_ANALYSIS_RESULT:error", alive)

\* the body of the while loop after receive_text returned message m
handle_message(m, alive) ==
    IF m.json = "invalid" THEN ws_except(WsRaised(<<>>), "invalid_json", alive)
    ELSE ws_except(IF m.json = "not_object" THEN WsRaised(<<>>)
                   ELSE IF m.type = "init" THEN send_json("initialized", alive)
                   ELSE IF m.type = "text_data" THEN text_data(m, alive)
                   ELSE IF m.type = "audio_data" THEN audio_data(m, alive)
                   ELSE IF m.type = "page_content" THEN page_content(m, alive)
                   ELSE WsDone(<<>>),
                   "processing_error", alive)

WsMessage(json, type, text, data, command, analysis) ==
    [json |-> json, type |-> type, text |-> text, data |-> data, command |-> command,
     analysis |-> analysis]

CommandResults == {"raises", "none", "PAGE_ANALYSIS", "EXECUTE_ACTION", "URL"}

\* the messages a client can send, with what processing them meets
WsMessages ==
    {WsMessage("invalid", "-", "-", "-", "-", "-"),
     WsMessage("not_object", "-", "-", "-", "-", "-"),
     WsMessage("object", "init", "-", "-", "-", "-"),
     WsMessage("object", "ping", "-", "-", "-", "-")}
    \cup {WsMessage("object", "text_data", text, "-", "-", "-") :
            text \in {"missing", "not_str", "blank"}}
    \cup {WsMessage("object", "text_data", "words", "-", command, "-") :
            command \in CommandResults}
    \cup {WsMessage("object", "audio_data", "-", data, "-", "-") :
            data \in {"missing", "not_base64", "not_audio"}}
    \cup {WsMessage("object", "audio_data", text, "audio", "-", "-") :
            text \in {"raises", "blank"}}
    \cup {WsMessage("object", "audio_data", "words", "audio", command, "-") :
            command \in CommandResults}
    \cup {WsMessage("object", "page_content", "-", "-", "-", analysis) :
            analysis \in {"raises", "result"}}

InitWs ==
    /\ link_history = <<>>
    /\ bookmarks = <<>>
    /\ current_title = None
    /\ turn = [op |-> "connecting", received |-> 0, alive |-> TRUE, exc |-> FALSE,
               msg |-> WsMessage("-", "-", "-", "-", "-", "-"), sent |-> <<>>]

\* websocket.accept() and the greeting
WsAccept ==
    /\ turn.op = "connecting"
    /\ turn' = [turn EXCEPT !.op = "receive", !.sent = <<"ready">>]
    /\ UNCHANGED <<link_history, bookmarks, current_title>>

\* websocket.receive_text() returns a message
WsReceive ==
    /\ turn.op = "receive" /\ turn.alive
    /\ turn.received < MaxMessages
    /\ \E m \in WsMessages :
        turn' = [turn EXCEPT !.op = "handle", !.msg = m, !.sent = <<>>,
                             !.received = @ + 1]
    /\ UNCHANGED <<link_history, bookmarks, current_title>>

\* the rest of the loop body; the client may go away before the reply
WsHandle ==
    /\ turn.op = "handle"
    /\ \E alive \in BOOLEAN :
        \E r \in {handle_message(turn.msg, alive)} :
            turn' = [turn EXCEPT !.op = IF r.exc THEN "closed" ELSE "receive",
                                 !.alive = alive, !.sent = r.sent, !.exc = r.exc]
    /\ UNCHANGED <<link_history, bookmarks, current_title>>

\* the client goes away while the server waits: receive_text raises
\* WebSocketDisconnect
WsDisconnect ==
    /\ turn.op = "receive"
    /\ turn' = [turn EXCEPT !.op = "closed", !.alive = FALSE]
    /\ UNCHANGED <<link_history, bookmarks, current_title>>

NextWs == WsAccept \/ WsReceive \/ WsHandle \/ WsDisconnect

SpecWs == InitWs /\ [][NextWs]_vars

\* the loop body has run for a message the endpoint answers
WsHandled ==
    /\ turn.op \in {"receive", "closed"} /\ turn.received > 0
    /\ \/ turn.msg.json = "invalid"
       \/ turn.msg.type \in {"init", "text_data", "audio_data", "page_content"}

\* C34: on /ws, a message that is invalid JSON or has type init, text_data,
\* audio_data or page_content is answered with exactly one JSON message
\* before the next message is received, on the success path and on every
\* error path; an error in processing does not end the loop, which ends only
\* when the client has disconnected.
C34_OneReplyPerMessage ==
    /\ (WsHandled /\ turn.op = "receive") => Len(turn.sent) = 1
    /\ (WsHandled /\ turn.alive) => turn.op = "receive"
    /\ turn.op = "closed" => ~turn.alive

C34_Witness ==
    /\ WsHandled /\ turn.op = "receive" /\ turn.alive
    /\ turn.received = 2
    /\ turn.msg.type = "audio_data" /\ turn.msg.data = "not_base64"
    /\ turn.sent = <<"processing_error">>

---------------------------------------------------------------------------
\* Agents/command_processor.py: CommandProcessor

WAKE_WORD ==
    <<"h","e","y"," ","a","s","s","i","s","t","a","n","t">>

STOP_WORD ==
    <<"g","o","o","d","b","y","e"," ","a","s","s","i","s","t","a","n","t">>

\* \s of the re module, for str patterns
RegexSpace == {" ", "\t", "\n", "\r", "\f"}

Quotes == {"\"", "'"}

\* the word w stands in s at position i
At(s, w, i) == i >= 1 /\ i + Len(w) - 1 <= Len(s) /\ SubSeq(s, i, i + Len(w) - 1) = w

\* the positions right after one of the words, started at a position of P
After(s, P, words) == {q \in 1..(Len(s) + 1) : \E w \in words : (q - Len(w)) \in P /\ At(s, w, q - Len(w))}

\* the positions right after an occurrence of one of the words anywhere in s
AfterAny(s, words) == After(s, 1..Len(s), words)

\* the positions after one or more characters of cs, started at a position of P
Run(s, P, cs) ==
    {q \in 1..(Len(s) + 1) : \E p \in P : p < q /\ \A k \in p..(q - 1) : s[k] \in cs}

\* (?:\s+word)? after a position of P
OptionalWord(s, P, word) == P \cup After(s, Run(s, P, RegexSpace), {word})

\* \s+(?:"|')?([^"']+) after a position of P
QuotedText(s, P) ==
    LET spaced == Run(s, P, RegexSpace)
    IN  \E p \in spaced \cup After(s, spaced, {<<"\"">>, <<"'">>}) :
            p <= Len(s) /\ s[p] \notin Quotes

AnalyzeCommands ==
    {<<"a","n","a","l","y","z","e"," ","p","a","g","e">>,
     <<"a","n","a","l","y","z","e","_","p","a","g","e">>,
     <<"a","n","a","l","y","z","e"," ","t","h","i","s"," ","p","a","g","e">>}

DomainChars == LowerLetters \cup UpperLetters \cup DigitChars \cup {"-"}

\* url_pattern.search(text_lower)
url_pattern(s) ==
    LET opened == Run(s, AfterAny(s, {<<"o","p","e","n">>}), RegexSpace)
        scheme == opened \cup After(s, opened, {<<"h","t","t","p",":","/","/">>, <<"h","t","t","p","s",":","/","/">>})
        www    == scheme \cup After(s, scheme, {<<"w","w","w",".">>})
    IN  \E p \in Run(s, www, DomainChars) :
            /\ p + 2 <= Len(s)
            /\ s[p] = "."
            /\ s[p + 1] \in LowerLetters \cup UpperLetters
            /\ s[p + 2] \in LowerLetters \cup UpperLetters

\* re.search(r'open\s+<name>', text_lower)
open_site(s, name) == After(s, Run(s, AfterAny(s, {<<"o","p","e","n">>}), RegexSpace), {name}) # {}

NavButtons ==
    {<<"h","o","m","e">>, <<"a","b","o","u","t">>, <<"s","p","o","n","s","o","r","s">>,
     <<"f","a","q">>, <<"t","e","a","m">>, <<"d","a","s","h","b","o","a","r","d">>}

\* the pattern of the GenAIGenesis navigation buttons
genai_nav(s) ==
    LET verbs == AfterAny(s, {<<"c","l","i","c","k">>, <<"o","p","e","n">>, <<"s","e","l","e","c","t">>})
                 \cup After(s, Run(s, AfterAny(s, {<<"g","o">>, <<"n","a","v","i","g","a","t","e">>}), RegexSpace),
                            {<<"t","o">>})
        spaced == Run(s, verbs, RegexSpace)
        signed == After(s, spaced, {<<"s","i","g","n">>, <<"l","o","g">>})
    IN  \/ After(s, spaced, NavButtons) # {}
        \/ After(s, signed \cup Run(s, signed, RegexSpace), {<<"o","u","t">>}) # {}

ChineseTerms ==
    {<<"<U+9996>","<U+9875>">>,
     <<"<U+4E3B>","<U+9875>">>,
     <<"<U+5173>","<U+4E8E>">>,
     <<"<U+8D5E>","<U+52A9>","<U+5546>">>,
     <<"<U+5E38>","<U+89C1>","<U+95EE>","<U+9898>">>,
     <<"<U+95EE>","<U+7B54>">>,
     <<"<U+56E2>","<U+961F>">>,
     <<"<U+4EEA>","<U+8868>","<U+76D8>">>,
     <<"<U+63A7>","<U+5236>","<U+9762>","<U+677F>">>,
     <<"<U+9000>","<U+51FA>">>,
     <<"<U+767B>","<U+51FA>">>,
     <<"<U+6CE8>","<U+9500>">>}

AnalyzeVerbs ==
    {<<"w","h","a","t">>, <<"t","e","l","l"," ","m","e">>, <<"d","e","s","c","r","i","b","e">>,
     <<"a","n","a","l","y","z","e">>, <<"a","n","a","l","y","z","e","_","p","a","g","e">>,
     <<"s","u","m","m","a","r","i","z","e">>, <<"e","x","p","l","a","i","n">>}

AnalyzeNouns ==
    {<<"p","a","g","e">>, <<"c","o","n","t","e","n","t">>, <<"w","e","b","s","i","t","e">>,
     <<"t","h","i","s"," ","p","a","g","e">>,
     <<"t","h","i","s"," ","w","e","b","s","i","t","e">>, <<"a","b","o","u","t">>}

\* analyze_pattern.search(text_lower): "." matches no newline
analyze_pattern(s) ==
    \E p \in AfterAny(s, AnalyzeVerbs) :
        \E q \in p..Len(s) :
            /\ \E w \in AnalyzeNouns : At(s, w, q)
            /\ \A k \in p..(q - 1) : s[k] # "\n"

ActionVerbs ==
    {<<"c","l","i","c","k">>, <<"t","a","p">>, <<"p","r","e","s","s">>,
     <<"s","e","l","e","c","t">>, <<"c","h","o","o","s","e">>, <<"i","n","p","u","t">>,
     <<"t","y","p","e">>, <<"e","n","t","e","r">>, <<"f","i","l","l">>}

\* action_pattern.search(text_lower)
action_pattern(s) ==
    QuotedText(s, OptionalWord(s, OptionalWord(s, OptionalWord(s, OptionalWord(s,
        AfterAny(s, ActionVerbs), <<"o","n">>), <<"t","h","e">>), <<"b","u","t","t","o","n">>), <<"l","i","n","k">>))

ButtonWords ==
    {<<"b","u","t","t","o","n">>, <<"t","a","b">>, <<"i","c","o","n">>}

ButtonSays ==
    {<<"s","a","y","s">>, <<"l","a","b","e","l","e","d">>,
     <<"w","i","t","h"," ","t","e","x","t">>, <<"w","i","t","h"," ","l","a","b","e","l">>}

\* (?:\s+(?:that\s+)?(?:<says>))? after a position of P
OptionalSays(s, P, says) ==
    LET spaced == Run(s, P, RegexSpace)
        that   == spaced \cup Run(s, After(s, spaced, {<<"t","h","a","t">>}), RegexSpace)
    IN  P \cup After(s, that, says)

\* button_pattern.search(text_lower)
button_pattern(s) == QuotedText(s, OptionalSays(s, AfterAny(s, ButtonWords), ButtonSays))

LinkSays ==
    {<<"s","a","y","s">>, <<"t","o">>, <<"l","a","b","e","l","e","d">>,
     <<"w","i","t","h"," ","t","e","x","t">>}

\* link_pattern.search(text_lower)
link_pattern(s) == QuotedText(s, OptionalSays(s, AfterAny(s, {<<"l","i","n","k">>}), LinkSays))

InputWords ==
    {<<"i","n","p","u","t">>, <<"f","i","e","l","d">>, <<"b","o","x">>,
     <<"t","e","x","t","b","o","x">>, <<"t","e","x","t"," ","b","o","x">>,
     <<"f","o","r","m"," ","f","i","e","l","d">>, <<"t","e","x","t","a","r","e","a">>}

\* input_pattern.search(text_lower); "text\s+box" and "form\s+field" end in
\* "box" and "field"
input_pattern(s) ==
    QuotedText(s, AfterAny(s, InputWords)
                  \cup After(s, Run(s, AfterAny(s, InputWords), RegexSpace),
                             {<<"w","i","t","h">>, <<"l","a","b","e","l","e","d">>, <<"f","o","r">>}))

NoCommand == "None"

\* the commands of an activated processor, by the type of the dict returned
activated_command(text) ==
    LET text_lower == Lower(text)
    IN  IF text_lower \in AnalyzeCommands THEN "PAGE_ANALYSIS"
        ELSE IF url_pattern(text_lower) THEN "URL_COMMAND"
        ELSE IF open_site(text_lower, <<"a","m","a","z","o","n">>) THEN "URL_COMMAND"
        ELSE IF open_site(text_lower, <<"g","e","n","a","i","g","e","n","e","s","i","s">>) THEN "URL_COMMAND"
        ELSE IF genai_nav(text_lower) THEN "EXECUTE_ACTION"
        ELSE IF \E term \in ChineseTerms : Contains(term, text) THEN "EXECUTE_ACTION"
        ELSE IF analyze_pattern(text_lower) THEN "PAGE_ANALYSIS"
        ELSE IF action_pattern(text_lower) THEN "EXECUTE_ACTION"
        ELSE IF button_pattern(text_lower) THEN "EXECUTE_ACTION"
        ELSE IF link_pattern(text_lower) THEN "EXECUTE_ACTION"
        ELSE IF input_pattern(text_lower) THEN "EXECUTE_ACTION"
        ELSE IF text # <<>> THEN "GENERAL_COMMAND"
        ELSE NoCommand

\* process_command that looks for commands whether activated or not
process_command_ungated(text, is_activated) ==
    IF ~is_activated /\ Contains(WAKE_WORD, Lower(text)) THEN "WAKE_WORD_DETECTED"
    ELSE IF Contains(STOP_WORD, Lower(text)) THEN "STOP_WORD_DETECTED"
    ELSE activated_command(text)

\* process_command(text, is_activated): the type of the command returned
process_command(text, is_activated) ==
    IF ~is_activated /\ Contains(WAKE_WORD, Lower(text)) THEN "WAKE_WORD_DETECTED"
    ELSE IF is_activated /\ Contains(STOP_WORD, Lower(text)) THEN "STOP_WORD_DETECTED"
    ELSE IF is_activated THEN activated_command(text)
    ELSE NoCommand

\* what an utterance can start with: nothing, the wake word, the stop word, both
SpokenPrefixes ==
    {<<>>,
     <<"H","e","y"," ","A","s","s","i","s","t","a","n","t",","," ">>,
     <<"s","o"," ","H","E","Y"," ","A","S","S","I","S","T","A","N","T"," ">>,
     <<"G","o","o","d","b","y","e"," ","A","s","s","i","s","t","a","n","t"," ">>,
     <<"h","e","y"," ","a","s","s","i","s","t","a","n","t",","," ","g","o","o","d","b","y","e"," ","a","s","s","i","s","t","a","n","t"," ">>}

\* what can follow
SpokenCommands ==
    {<<>>,
     <<"a","n","a","l","y","z","e"," ","p","a","g","e">>,
     <<"O","p","e","n"," ","a","m","a","z","o","n",".","c","o","m">>,
     <<"o","p","e","n"," ","h","t","t","p","s",":","/","/","a",".","i","o","/","x">>,
     <<"o","p","e","n"," ","a","m","a","z","o","n">>,
     <<"g","o"," ","t","o"," ","a","b","o","u","t">>,
     <<"w","h","a","t"," ","i","s"," ","o","n"," ","t","h","i","s"," ","p","a","g","e">>,
     <<"c","l","i","c","k"," ","s","u","b","m","i","t">>,
     <<"t","y","p","e"," ","h","e","l","l","o"," ","i","n","t","o"," ","s","e","a","r","c","h">>,
     <<"t","h","e"," ","b","u","t","t","o","n"," ","o","k">>,
     <<"f","o","l","l","o","w"," ","l","i","n","k"," ","d","o","c","s">>,
     <<"f","i","e","l","d"," ","e","m","a","i","l">>,
     <<"h","e","l","l","o"," ","t","h","e","r","e">>,
     <<"h","e","y"," ","t","h","e","r","e"," ","a","s","s","i","s","t","a","n","t">>,
     <<"<U+9996>","<U+9875>">>}

SpokenTexts == {prefix \o command : prefix \in SpokenPrefixes, command \in SpokenCommands}

InitCommand ==
    /\ link_history = <<>>
    /\ bookmarks = <<>>
    /\ current_title = None
    /\ \E text \in SpokenTexts, is_activated \in BOOLEAN :
        turn = [op |-> "heard", text |-> text, is_activated |-> is_activated,
                command |-> NoCommand]

\* command_processor.process_command(text, is_activated)
ProcessCommand ==
    /\ turn.op = "heard"
    /\ turn' = [turn EXCEPT !.op = "processed",
                            !.command = process_command(turn.text, turn.is_activated)]
    /\ UNCHANGED <<link_history, bookmarks, current_title>>

SpecCommand == InitCommand /\ [][ProcessCommand]_vars

Processed == turn.op = "processed"

\* C35: not activated, process_command returns WAKE_WORD_DETECTED exactly
\* when the text contains the wake word in any case, and None otherwise: no
\* URL, page-analysis, action or general command while not activated.
\* Activated, with the stop word in the text, it returns STOP_WORD_DETECTED
\* whatever else the text contains.
C35_ActivationGatesCommands ==
    Processed =>
        /\ ~turn.is_activated
            => turn.command = IF Contains(WAKE_WORD, Lower(turn.text))
                              THEN "WAKE_WORD_DETECTED" ELSE NoCommand
        /\ (turn.is_activated /\ Contains(STOP_WORD, Lower(turn.text)))
            => turn.command = "STOP_WORD_DETECTED"

C35_Witness ==
    /\ Processed /\ ~turn.is_activated
    /\ ~Contains(WAKE_WORD, Lower(turn.text))
    /\ url_pattern(Lower(turn.text))
    /\ turn.command = NoCommand

----------------------------------------------------------------------------
\* BackEnd/main.py: analyze_page(page_content).  An ActionItem is modelled by
\* its action_type, its element_type and the "text" of its element_attributes
\* ("None" where the field is not set); a page by the length of its HTML, the
\* elements BeautifulSoup finds in it in document order, the outcome of the
\* parsers, the keywords that occur in html_preview.lower(), and its URL.

MinHtmlLength == 100
MaxActions == 10
MaxElements == 12

AMAZON_COM ==
    <<"a","m","a","z","o","n",".","c","o","m">>
AMAZON_DOT ==
    <<"a","m","a","z","o","n",".">>
GENAIGENESIS_CA ==
    <<"g","e","n","a","i","g","e","n","e","s","i","s",".","c","a">>
PRODUCT ==
    <<"p","r","o","d","u","c","t">>
DP_PATH ==
    <<"d","p","/">>
GP_PRODUCT ==
    <<"g","p","/","p","r","o","d","u","c","t">>
URL_AMAZON_PRODUCT ==
    <<"h","t","t","p","s",":","/","/","w","w","w",".","a","m","a","z","o","n",".","c","o","m",
      "/","d","p","/","B","1">>
URL_AMAZON_HOME ==
    <<"h","t","t","p","s",":","/","/","w","w","w",".","a","m","a","z","o","n",".","c","a","/">>
URL_GENAI ==
    <<"h","t","t","p","s",":","/","/","g","e","n","a","i","g","e","n","e","s","i","s",".","c",
      "a","/","a","b","o","u","t">>
URL_PLAIN ==
    <<"h","t","t","p","s",":","/","/","a",".","i","o","/","n","e","w","s">>
URL_MENTIONS_GENAI ==
    <<"a",".","i","o","/","g","e","n","a","i","g","e","n","e","s","i","s",".","c","a">>

ActionItem(action_type, element_type, text) ==
    [action_type |-> action_type, element_type |-> element_type, text |-> text]

Element(tag, type, text) == [tag |-> tag, type |-> type, text |-> text]

\* url.split('/')[k]
SplitSlash(url, k) ==
    LET idx == SelectSeq([i \in 1..Len(url) |-> i], LAMBDA i : url[i] = "/")
        first == IF k = 0 THEN 1 ELSE idx[k] + 1
        last == IF k + 1 <= Len(idx) THEN idx[k + 1] - 1 ELSE Len(url)
    IN  SubSeq(url, first, last)

\* domain = url.split('/')[2] if '//' in url else url.split('/')[0]
domain_of(url) ==
    IF Contains(<<"/", "/">>, url) THEN SplitSlash(url, 2) ELSE SplitSlash(url, 0)

ButtonInputTypes == {"button", "submit", "reset"}
TextInputTypes == {"text", "email", "password", "search", "tel", "url", "number"}

\* for btn in soup.find_all(['button', 'input']): ... if btn_text: actions.append
button_actions(elements) ==
    LET found == SelectSeq(elements, LAMBDA e :
                    /\ e.tag \in {"button", "input"}
                    /\ (e.tag = "input" => e.type \in ButtonInputTypes)
                    /\ e.text # "")
    IN  [i \in 1..Len(found) |-> ActionItem("click", "button", found[i].text)]

\* for link in soup.find_all('a'): if link_text and len(link_text) < 50
link_actions(elements) ==
    LET found == SelectSeq(elements, LAMBDA e : e.tag = "a" /\ e.text # "")
    IN  [i \in 1..Len(found) |-> ActionItem("click", "link", found[i].text)]

\* for inp in soup.find_all('input'): text-like, checkbox or radio
input_actions(elements) ==
    LET found == SelectSeq(elements, LAMBDA e :
                    /\ e.tag = "input"
                    /\ e.type \notin ButtonInputTypes
                    /\ e.type \in TextInputTypes \cup {"checkbox", "radio"})
    IN  [i \in 1..Len(found) |->
            IF found[i].type \in TextInputTypes
            THEN ActionItem("input", "input", "None")
            ELSE ActionItem("click", found[i].type, "None")]

\* for textarea in soup.find_all('textarea')
textarea_actions(elements) ==
    LET found == SelectSeq(elements, LAMBDA e : e.tag = "textarea")
    IN  [i \in 1..Len(found) |-> ActionItem("input", "textarea", "None")]

\* for select in soup.find_all('select')
select_actions(elements) ==
    LET found == SelectSeq(elements, LAMBDA e : e.tag = "select")
    IN  [i \in 1..Len(found) |-> ActionItem("click", "select", "None")]

\* the inner try: the actions of the parsed page, or none when every parser
\* fails (the except branch continues with the alternatives)
parsed_actions(page) ==
    IF page.parse = "raise" THEN <<>>
    ELSE button_actions(page.elements) \o link_actions(page.elements)
            \o input_actions(page.elements) \o textarea_actions(page.elements)
            \o select_actions(page.elements)

nav_buttons == <<"Home", "About", "Sponsors", "FAQ", "Team", "Dashboard", "Sign out">>

genai_nav_buttons ==
    {"home", "about", "sponsors", "faq", "team", "dashboard", "sign out", "logout",
     "log out"}

\* nav.lower() == button_text.lower() for the button texts of the model
LowerText(text) ==
    CASE text = "Home" -> "home"
      [] text = "About" -> "about"
      [] text = "Sponsors" -> "sponsors"
      [] text = "FAQ" -> "faq"
      [] text = "Team" -> "team"
      [] text = "Dashboard" -> "dashboard"
      [] text = "Sign out" -> "sign out"
      [] OTHER -> text

\* if "amazon.com" in domain or "amazon." in domain
amazon_actions(url) ==
    IF Contains(PRODUCT, url) \/ Contains(DP_PATH, url) \/ Contains(GP_PRODUCT, url)
    THEN <<ActionItem("click", "button", "None"), ActionItem("click", "button", "None")>>
    ELSE <<ActionItem("input", "input", "None")>>

\* elif "genaigenesis.ca" in domain: one button per nav_buttons entry
genai_actions ==
    [i \in 1..Len(nav_buttons) |-> ActionItem("click", "button", nav_buttons[i])]

\* else: generic pattern matching on html_preview.lower()
pattern_actions(words) ==
    (IF "cart" \in words \/ "checkout" \in words
     THEN <<ActionItem("click", "button", "None")>> ELSE <<>>)
    \o (IF "login" \in words \/ "sign in" \in words
        THEN <<ActionItem("input", "input", "None"), ActionItem("input", "password", "None"),
               ActionItem("click", "button", "None")>>
        ELSE <<>>)
    \o (IF "search" \in words THEN <<ActionItem("input", "input", "None")>> ELSE <<>>)

IsAmazon(url) ==
    Contains(AMAZON_COM, domain_of(url)) \/ Contains(AMAZON_DOT, domain_of(url))

IsGenAI(url) == Contains(GENAIGENESIS_CA, domain_of(url))

\* if len(actions) == 0: the domain and pattern alternatives
fallback_actions(page) ==
    IF IsAmazon(page.url) THEN amazon_actions(page.url)
    ELSE IF IsGenAI(page.url) THEN genai_actions
    ELSE pattern_actions(page.words)

scroll_action == ActionItem("scroll", "None", "None")

\* if len(actions) == 0: actions.append(scroll action)
with_scroll(actions) == IF Len(actions) = 0 THEN <<scroll_action>> ELSE actions

\* sorted(actions, key=action_priority)[:10] when len(actions) > 10
limit_actions(actions) ==
    IF Len(actions) > MaxActions
    THEN LET sorted == SelectSeq(actions, LAMBDA a : a.action_type = "input")
                       \o SelectSeq(actions, LAMBDA a : a.action_type = "click")
                       \o SelectSeq(actions, LAMBDA a : a.action_type \notin {"input", "click"})
         IN  SubSeq(sorted, 1, MaxActions)
    ELSE actions

\* the filter that keeps buttons and input fields
filter_actions(actions, url) ==
    LET is_genai_genesis == Contains(GENAIGENESIS_CA, url)
    IN  SelectSeq(actions, LAMBDA a :
            \/ /\ is_genai_genesis
               /\ a.action_type = "click"
               /\ a.text # "None"
               /\ LowerText(a.text) \in genai_nav_buttons
            \/ a.action_type = "input"
            \/ a.action_type = "click" /\ a.element_type = "button"
            \/ a.action_type = "click" /\ a.element_type \in {"checkbox", "radio", "input"})

back_action == ActionItem("navigate", "None", "None")

\* analyze_page(page_content): the "actions" and the "error" of the reply
analyze_page(page) ==
    IF page.html_len < MinHtmlLength
    THEN [actions |-> <<back_action>>, error |-> TRUE]
    ELSE LET parsed == parsed_actions(page)
         IN  IF Len(parsed) = 0 /\ ~IsAmazon(page.url) /\ IsGenAI(page.url)
             THEN [actions |-> genai_actions, error |-> FALSE]
             ELSE LET actions == IF Len(parsed) = 0 THEN fallback_actions(page)
                                 ELSE parsed
                  IN  [actions |-> filter_actions(limit_actions(with_scroll(actions)),
                                                  page.url),
                       error |-> FALSE]

BUTTON_GO == Element("button", "None", "Go")
BUTTON_BLANK == Element("button", "None", "")
INPUT_SUBMIT == Element("input", "submit", "Send")
INPUT_TEXT == Element("input", "text", "")
INPUT_HIDDEN == Element("input", "hidden", "")
INPUT_CHECKBOX == Element("input", "checkbox", "")
INPUT_RADIO == Element("input", "radio", "")
LINK_HOME == Element("a", "None", "Home")
LINK_MORE == Element("a", "None", "More")
LINK_BLANK == Element("a", "None", "")
TEXTAREA == Element("textarea", "None", "")
SELECT == Element("select", "None", "")

ElementPatterns ==
    {<<BUTTON_GO>>, <<LINK_MORE>>, <<SELECT>>, <<INPUT_HIDDEN, BUTTON_BLANK, LINK_BLANK>>,
     <<LINK_HOME, INPUT_TEXT>>,
     <<SELECT, LINK_MORE, BUTTON_GO, INPUT_CHECKBOX, TEXTAREA, INPUT_RADIO, INPUT_SUBMIT,
       INPUT_TEXT>>}

\* the first n elements of a document that repeats a pattern
Repeated(pattern, n) == [i \in 1..n |-> pattern[((i - 1) % Len(pattern)) + 1]]

ElementLists == {Repeated(p, n) : p \in ElementPatterns, n \in 0..MaxElements}

HtmlLengths == {0, MinHtmlLength - 1, MinHtmlLength, 20001}

WordSets == {{}, {"cart"}, {"sign in"}, {"search"}, {"checkout", "login", "search"}}

PageUrls == {URL_AMAZON_PRODUCT, URL_AMAZON_HOME, URL_GENAI, URL_PLAIN, URL_MENTIONS_GENAI}

PageContents ==
    [html_len : HtmlLengths, elements : ElementLists, parse : {"ok", "raise"},
     words : WordSets, url : PageUrls]

NoReply == [actions |-> <<>>, error |-> FALSE]

InitAnalyze ==
    /\ link_history = <<>>
    /\ bookmarks = <<>>
    /\ current_title = None
    /\ \E page \in PageContents : turn = [op |-> "posted", page |-> page, reply |-> NoReply]

\* POST /analyze_page
AnalyzePage ==
    /\ turn.op = "posted"
    /\ turn' = [turn EXCEPT !.op = "analyzed", !.reply = analyze_page(turn.page)]
    /\ UNCHANGED <<link_history, bookmarks, current_title>>

SpecAnalyze == InitAnalyze /\ [][AnalyzePage]_vars

Analyzed == turn.op = "analyzed"

\* the page has at least 100 characters of HTML and neither the parsing nor
\* the domain and pattern fallbacks yield an action
NoActionFound ==
    /\ turn.page.html_len >= MinHtmlLength
    /\ parsed_actions(turn.page) = <<>>
    /\ fallback_actions(turn.page) = <<>>

\* C36: when a page has at least 100 characters of HTML and neither the HTML
\* parsing nor the domain and pattern fallbacks yield an action, the actions
\* analyze_page returns contain the scroll action, so they are not empty; and
\* analyze_page never returns more than 10 actions.
C36_ScrollWhenNothingFound ==
    Analyzed =>
        /\ NoActionFound =>
            \E i \in 1..Len(turn.reply.actions) : turn.reply.actions[i] = scroll_action
        /\ Len(turn.reply.actions) <= MaxActions

\* the part of C36 that the code keeps: never more than 10 actions, also
\* when the parsing finds more
C36_AtMostTenActions == Analyzed => Len(turn.reply.actions) <= MaxActions

\* a page with nothing actionable is answered with no action at all: the
\* scroll action is appended and then filtered out
C36_ScrollFilteredOut ==
    /\ Analyzed
    /\ NoActionFound
    /\ turn.reply.actions = <<>>

\* more than 10 parsed actions are cut down to 10
C36_LimitApplied ==
    /\ Analyzed
    /\ Len(parsed_actions(turn.page)) > MaxActions
    /\ turn.page.html_len >= MinHtmlLength
    /\ Len(turn.reply.actions) = MaxActions

============================================================================
